---------------------------- MODULE Spec2Model ----------------------------
(***************************************************************************)
(* A model of the polygon package (tinkerator/polygon): the shape          *)
(* constructor, Append / Invert, and the Union engine (dissolve,           *)
(* intersect, crossings, insider, outlines, combine, trimHole, Union).     *)
(*                                                                         *)
(* Coordinates are whole numbers.  The package works in float64 with the   *)
(* tolerance Zeroish = 1e-6; on whole-number coordinates every tolerance   *)
(* test "|x| < Zeroish" is "x = 0", and the arithmetic of intersect is     *)
(* exact as long as every quotient it forms is a dyadic rational.  The     *)
(* operators report in a flag (exact) whether that was so; a Union whose   *)
(* arithmetic leaves that regime stops in the state pc = "inexact" and     *)
(* nothing is claimed about it.                                            *)
(*                                                                         *)
(* Go slices are 0-based; sequences here are 1-based, and At(s, k) reads   *)
(* the element the Go code calls s[k].                                     *)
(***************************************************************************)
EXTENDS Integers, Sequences, FiniteSets, TLC

(***************************************************************************)
(* Bounds of the model.                                                    *)
(***************************************************************************)
\* the number of shapes a collection is built up to before Union
MaxShapes == 3
\* the number of Invert calls made while building a collection
MaxInverts == 1
\* the number of loop steps, nested calls included, a Union nested in trimHole
\* is followed for
MaxFuel == 6
\* the number of steps of its inner loop a Union is followed for
MaxSteps == 8
\* the rings handed to Append lie in the square from (0, 0) to (GridMax, GridMax)
GridMax == 8

(***************************************************************************)
(* Arithmetic helpers.                                                     *)
(***************************************************************************)
\* 1 / Zeroish
ZeroishInv == 1000000

Abs(x) == IF x < 0 THEN -x ELSE x

\* |x| < Zeroish
LtZeroish(x) == Abs(x) * ZeroishInv < 1

\* |x| > Zeroish
GtZeroish(x) == Abs(x) * ZeroishInv > 1

\* |x| > Zeroish2 (= 1e-12), for x a whole number of area units
GtZeroish2(x) == Abs(x) >= 1

min(a, b) == IF a < b THEN a ELSE b

max(a, b) == IF a > b THEN a ELSE b

MinMax(a, b) == IF a <= b THEN <<a, b>> ELSE <<b, a>>

At(s, k) == s[k + 1]

SetAt(s, k, v) == [s EXCEPT ![k + 1] = v]

\* s without its element k (append(s[:k], s[k+1:]...))
RemoveAt(s, k) == SubSeq(s, 1, k) \o SubSeq(s, k + 2, Len(s))

\* s with e put in as element k (append(s[:k], e, s[k:]...))
InsertAt(s, k, e) == SubSeq(s, 1, k) \o <<e>> \o SubSeq(s, k + 1, Len(s))

Range(s) == {s[k] : k \in 1..Len(s)}

RECURSIVE Reverse(_)
Reverse(s) == IF s = <<>> THEN <<>> ELSE Reverse(Tail(s)) \o <<Head(s)>>

SetMin(S) == CHOOSE x \in S : \A y \in S : x <= y

SetMax(S) == CHOOSE x \in S : \A y \in S : x >= y

(***************************************************************************)
(* Points, shapes and collections of shapes.                               *)
(***************************************************************************)
Pt(x, y) == [X |-> x, Y |-> y]

\* the zero value of a Point
ZeroPt == Pt(0, 0)

BB(a, b) == [ll |-> Pt(MinMax(a.X, b.X)[1], MinMax(a.Y, b.Y)[1]),
             tr |-> Pt(MinMax(a.X, b.X)[2], MinMax(a.Y, b.Y)[2])]

\* a *Shape that is nil
NoShape == [Index |-> <<>>, MinX |-> 0, MinY |-> 0, MaxX |-> 0, MaxY |-> 0,
            Hole |-> FALSE, PS |-> <<>>]

\* a *Shapes that is nil
NilShapes == [nil |-> TRUE, index |-> 0, P |-> <<>>]

\* &Shapes{}
EmptyShapes == [nil |-> FALSE, index |-> 0, P |-> <<>>]

\* an error that is nil
NoError == [fmt |-> "", args |-> <<>>]

\* fmt.Errorf(format, args...): the message is kept as its format and the
\* values the verbs of the format print
Errorf(format, args) == [fmt |-> format, args |-> args]

\* what recover() would see after a nil pointer dereference
NilDereference == [fmt |-> "invalid memory address or nil pointer dereference",
                   args |-> <<>>]

\* A faulty variant of zPtFrom: the search compares X alone.
RECURSIVE zPtNoTie(_, _, _)
zPtNoTie(pts, j, zPt) ==
    IF j >= Len(pts) THEN zPt
    ELSE zPtNoTie(pts, j + 1, IF At(pts, j).X < At(pts, zPt).X THEN j ELSE zPt)

\* the index of the first leftmost, then lowest, point of pts, found the way
\* the loop of Rationalize finds it
RECURSIVE zPtFrom(_, _, _)
zPtFrom(pts, j, zPt) ==
    IF j >= Len(pts) THEN zPt
    ELSE LET v == At(pts, j)
             z == At(pts, zPt)
         IN  zPtFrom(pts, j + 1,
                     IF v.X < z.X \/ (v.X = z.X /\ v.Y < z.Y) THEN j ELSE zPt)

\* The index of the first lowest, then leftmost, point of pts: where a faulty
\* variant of Rationalize lets the ring start.
zPtLowest(pts) ==
    CHOOSE k \in 0..(Len(pts) - 1) :
        /\ \A m \in 0..(Len(pts) - 1) :
              \/ At(pts, k).Y < At(pts, m).Y
              \/ (At(pts, k).Y = At(pts, m).Y /\ At(pts, k).X <= At(pts, m).X)
        /\ \A m \in 0..(k - 1) : At(pts, m) # At(pts, k)

\* A faulty variant of RationalizeFrom: the turn that decides Hole is taken at
\* the first point given, before the ring is rotated.
RationalizeFromGiven(pts, zPt) ==
    LET ps  == SubSeq(pts, zPt + 1, Len(pts)) \o SubSeq(pts, 1, zPt)
        d1X == pts[1].X - pts[Len(pts)].X
        d1Y == pts[1].Y - pts[Len(pts)].Y
        d2X == pts[2].X - pts[1].X
        d2Y == pts[2].Y - pts[1].Y
    IN  [err |-> FALSE,
         s   |-> [Index |-> <<>>,
                  MinX  |-> SetMin({pts[k].X : k \in 1..Len(pts)}),
                  MinY  |-> SetMin({pts[k].Y : k \in 1..Len(pts)}),
                  MaxX  |-> SetMax({pts[k].X : k \in 1..Len(pts)}),
                  MaxY  |-> SetMax({pts[k].Y : k \in 1..Len(pts)}),
                  Hole  |-> (d1X * d2Y - d1Y * d2X) < 0,
                  PS    |-> ps]]

\* the body of Rationalize after its length test, zPt being the index its loop
\* has found
RationalizeFrom(pts, zPt) ==
    LET ps  == SubSeq(pts, zPt + 1, Len(pts)) \o SubSeq(pts, 1, zPt)
        d1X == ps[1].X - ps[Len(ps)].X
        d1Y == ps[1].Y - ps[Len(ps)].Y
        d2X == ps[2].X - ps[1].X
        d2Y == ps[2].Y - ps[1].Y
    IN  [err |-> FALSE,
         s   |-> [Index |-> <<>>,
                  MinX  |-> SetMin({pts[k].X : k \in 1..Len(pts)}),
                  MinY  |-> SetMin({pts[k].Y : k \in 1..Len(pts)}),
                  MaxX  |-> SetMax({pts[k].X : k \in 1..Len(pts)}),
                  MaxY  |-> SetMax({pts[k].Y : k \in 1..Len(pts)}),
                  Hole  |-> (d1X * d2Y - d1Y * d2X) < 0,
                  PS    |-> ps]]

\* A faulty variant of Rationalize: the ring starts at zPtLowest.
RationalizeLowest(pts) ==
    IF Len(pts) < 3 THEN [err |-> TRUE, s |-> NoShape]
    ELSE RationalizeFrom(pts, zPtLowest(pts))

\* Rationalize(pts): (shape, error)
Rationalize(pts) ==
    IF Len(pts) < 3 THEN [err |-> TRUE, s |-> NoShape]
    ELSE RationalizeFrom(pts, zPtFrom(pts, 1, 0))

\* A faulty variant of ShapesAppend: the counter advances before pts is looked at.
ShapesAppendCounts(p, pts) ==
    LET made(r) ==
            IF r.err THEN [p |-> [p EXCEPT !.index = p.index + 1], err |-> TRUE]
            ELSE IF p.nil
            THEN [p   |-> [nil |-> FALSE, index |-> 0,
                           P |-> <<[r.s EXCEPT !.Index = <<"0">>]>>],
                  err |-> FALSE]
            ELSE [p   |-> [p EXCEPT !.index = p.index + 1,
                                    !.P = Append(p.P, [r.s EXCEPT !.Index =
                                                       <<ToString(p.index + 1)>>])],
                  err |-> FALSE]
    IN  made(Rationalize(pts))

\* (p *Shapes) Append(pts...): (the collection returned, error)
ShapesAppend(p, pts) ==
    LET made(r) ==
            IF r.err THEN [p |-> p, err |-> TRUE]
            ELSE IF p.nil
            THEN [p   |-> [nil |-> FALSE, index |-> 0,
                           P |-> <<[r.s EXCEPT !.Index = <<"0">>]>>],
                  err |-> FALSE]
            ELSE [p   |-> [p EXCEPT !.index = p.index + 1,
                                    !.P = Append(p.P, [r.s EXCEPT !.Index =
                                                       <<ToString(p.index + 1)>>])],
                  err |-> FALSE]
    IN  made(Rationalize(pts))

\* A faulty variant of Invert: the ring is reversed and the flag left alone.
InvertKeepsFlag(p, i) ==
    IF i < 0 \/ i >= Len(p.P) THEN [p |-> p, err |-> TRUE]
    ELSE LET s == At(p.P, i)
         IN  [p   |-> [p EXCEPT !.P = SetAt(p.P, i,
                          [s EXCEPT !.PS = <<Head(s.PS)>> \o Reverse(Tail(s.PS))])],
              err |-> FALSE]

\* (p *Shapes) Invert(i): (the collection afterwards, error)
Invert(p, i) ==
    IF i < 0 \/ i >= Len(p.P) THEN [p |-> p, err |-> TRUE]
    ELSE LET s == At(p.P, i)
         IN  [p   |-> [p EXCEPT !.P = SetAt(p.P, i,
                          [s EXCEPT !.Hole = ~s.Hole,
                                    !.PS = <<Head(s.PS)>> \o Reverse(Tail(s.PS))])],
              err |-> FALSE]

\* the error of Rationalize
RationalizeError(pts) ==
    IF Len(pts) < 3
    THEN Errorf("polygon requires 3 or more points: got=%d", <<Len(pts)>>)
    ELSE NoError

\* A faulty variant of InvertError: the message gives the index alone.
InvertErrorBare(p, i) ==
    IF i < 0 \/ i >= Len(p.P)
    THEN Errorf("invalid index %d but %d known shapes", <<i>>)
    ELSE NoError

\* the error of (p *Shapes) Invert(i)
InvertError(p, i) ==
    IF i < 0 \/ i >= Len(p.P)
    THEN Errorf("invalid index %d but %d known shapes", <<i, Len(p.P)>>)
    ELSE NoError

\* (p *Shapes) Inflate(n, d) for d = 0, where there is nothing to inflate:
\* (the collection afterwards, error).  The offsetting that follows for
\* another d takes square roots and is not followed.
Inflate(p, n, d) ==
    CASE n < 0 \/ n >= Len(p.P) ->
             [p |-> p,
              err |-> Errorf("invalid polygon=%d in shapes (%d known)",
                             <<n, Len(p.P)>>)]
      [] n >= 0 /\ n < Len(p.P) /\ d = 0 -> [p |-> p, err |-> NoError]

\* (p *Shapes) Slice(i, d) and VSlice(i, d), which differ in the axis they
\* walk, for a d so large that the first level, lo + d/2, is not below hi
\* and the loop over the levels is never entered: (lines, error)
sliceAlong(p, i, d, axis) ==
    CASE p.nil \/ i < 0 \/ i >= Len(p.P) ->
             [lines |-> <<>>, err |-> Errorf("invalid index %d for shapes", <<i>>)]
      [] ~p.nil /\ i >= 0 /\ i < Len(p.P) /\ At(p.P, i).Hole ->
             [lines |-> <<>>,
              err |-> Errorf("no overlap with (shape %d) a hole", <<i>>)]
      [] ~p.nil /\ i >= 0 /\ i < Len(p.P) /\ ~At(p.P, i).Hole
         /\ LET s  == At(p.P, i)
                lo == IF axis = "Y" THEN s.MinY ELSE s.MinX
                hi == IF axis = "Y" THEN s.MaxY ELSE s.MaxX
            IN  2 * lo + d >= 2 * hi ->
             [lines |-> <<>>, err |-> NoError]

Slice(p, i, d) == sliceAlong(p, i, d, "Y")

VSlice(p, i, d) == sliceAlong(p, i, d, "X")

\* (p *Shapes) Include(s...)
Include(p, ss) ==
    IF Len(ss) = 0 THEN p
    ELSE IF p.nil THEN [nil |-> FALSE, index |-> 0, P |-> ss]
    ELSE [p EXCEPT !.P = p.P \o ss]

\* (p *Shapes) Duplicate(): a collection of copies, with a fresh counter
Duplicate(p) == [nil |-> FALSE, index |-> 0, P |-> p.P]

(***************************************************************************)
(* Geometry primitives.                                                    *)
(***************************************************************************)
\* A faulty variant of MatchPoint: the second test looks at X again.
MatchPointX(a, B) == \E c \in B : LtZeroish(a.X - c.X) /\ LtZeroish(a.X - c.X)

\* MatchPoint(a, b...): a is within Zeroish of one of the points of B
MatchPoint(a, B) == \E c \in B : LtZeroish(a.X - c.X) /\ LtZeroish(a.Y - c.Y)

\* (a Point) NotSame(b): whole numbers have no negative zero
NotSame(a, b) == a # b

Dot(a, b) == a.X * b.X + a.Y * b.Y

\* (a Point) Unit(b) fails when a and b are closer than Zeroish
UnitErr(a, b) ==
    LET l2 == Dot(Pt(b.X - a.X, b.Y - a.Y), Pt(b.X - a.X, b.Y - a.Y))
    IN  ~GtZeroish2(l2)

\* moreClockwise(b, c, d): c is more clockwise than d, seen from b
moreClockwise(b, c, d) ==
    LET bc == Pt(c.X - b.X, c.Y - b.Y)
        bd == Pt(d.X - b.X, d.Y - b.Y)
    IN  bc.X * bd.Y - bc.Y * bd.X >= 0

\* (a Point) isLeft(b, c)
isLeft(a, b, c) == moreClockwise(b, c, a)

\* n / d is a dyadic rational: the float64 quotient is exact
Dyadic(n, d) == (n * 64) % Abs(d) = 0

\* the quotient n / d rounded down
Floor(n, d) == IF d > 0 THEN n \div d ELSE (-n) \div (-d)

\* the point where the lines (a->b) and (c->d) meet, as intersect computes
\* it when the lines are not parallel: at.X = xn / xd, at.Y = yn / yd, and
\* exact says that every quotient formed on the way is a dyadic rational
crossPoint(a, b, c, d) ==
    LET dABX == b.X - a.X
        dABY == b.Y - a.Y
        dCDX == d.X - c.X
        dCDY == d.Y - c.Y
    IN  IF GtZeroish(dCDX) /\ LtZeroish(dABX)
        THEN \* at.X = a.X; at.Y = cCD + mCD * a.X
             [xn |-> a.X, xd |-> 1,
              yn |-> d.Y * dCDX + dCDY * (a.X - d.X), yd |-> dCDX,
              exact |-> Dyadic(dCDY, dCDX)]
        ELSE IF GtZeroish(dABX) /\ LtZeroish(dCDX)
        THEN \* at.X = d.X; at.Y = cAB + mAB * d.X
             [xn |-> d.X, xd |-> 1,
              yn |-> a.Y * dABX + dABY * (d.X - a.X), yd |-> dABX,
              exact |-> Dyadic(dABY, dABX)]
        ELSE \* at.X = -(cAB - cCD) / (mAB - mCD); at.Y = cAB + mAB * at.X
             LET xn == (d.Y * dCDX - dCDY * d.X) * dABX
                       - (a.Y * dABX - dABY * a.X) * dCDX
                 xd == dABY * dCDX - dCDY * dABX
             IN  [xn |-> xn, xd |-> xd,
                  yn |-> (a.Y * dABX - dABY * a.X) * xd + dABY * xn,
                  yd |-> dABX * xd,
                  exact |-> /\ Dyadic(dABY, dABX)
                            /\ Dyadic(dCDY, dCDX)
                            /\ Dyadic(xn, xd)]

\* n / d < v, n / d > v for a whole number v
RatLt(n, d, v) == IF d > 0 THEN n < v * d ELSE n > v * d

RatGt(n, d, v) == IF d > 0 THEN n > v * d ELSE n < v * d

\* intersect(a, b, c, d): (hit, left, hold, at).  exact: the arithmetic was
\* exact; grid: at is a point with whole-number coordinates.
intersect(a, b, c, d) ==
    LET dABX == b.X - a.X
        dABY == b.Y - a.Y
        dCDX == d.X - c.X
        dCDY == d.Y - c.Y
        res(hit, at, exact, grid) ==
            [hit |-> hit, at |-> at, exact |-> exact, grid |-> grid]
        \* left and hold are set before the first return
        sided(x) ==
            [hit |-> x.hit, left |-> isLeft(a, c, d), hold |-> isLeft(c, a, b),
             at |-> x.at, exact |-> x.exact, grid |-> x.grid]
        r    == dABX * dCDY - dABY * dCDX
        closeness == (a.Y - d.Y) * dABX - (a.X - d.X) * dABY
        u    == Pt(b.X - a.X, b.Y - a.Y)
        cD   == Dot(Pt(c.X - a.X, c.Y - a.Y), u)
        dD   == Dot(Pt(d.X - a.X, d.Y - a.Y), u)
        \* the lines cross at q; bb0 and bb1 span the box shared by both
        \* lines: widening a flat box by Zeroish / 2 admits no further point
        \* whose coordinates are quotients of the whole numbers at hand
        crossed(q, bb0, bb1) ==
            res(~(\/ RatLt(q.xn, q.xd, bb0.X)
                  \/ RatGt(q.xn, q.xd, bb1.X)
                  \/ RatLt(q.yn, q.yd, bb0.Y)
                  \/ RatGt(q.yn, q.yd, bb1.Y)),
                Pt(Floor(q.xn, q.xd), Floor(q.yn, q.yd)), q.exact,
                q.xn % Abs(q.xd) = 0 /\ q.yn % Abs(q.yd) = 0)
        \* the body of intersect, bbAB and bbCD being the boxes of the lines
        boxed(bbAB, bbCD) ==
        IF \/ (bbAB.ll.X > bbCD.tr.X /\ GtZeroish(bbAB.ll.X - bbCD.tr.X))
           \/ (bbAB.tr.X < bbCD.ll.X /\ GtZeroish(bbAB.tr.X - bbCD.ll.X))
           \/ (bbAB.ll.Y > bbCD.tr.Y /\ GtZeroish(bbAB.ll.Y - bbCD.tr.Y))
           \/ (bbAB.tr.Y < bbCD.ll.Y /\ GtZeroish(bbAB.tr.Y - bbCD.ll.Y))
        THEN res(FALSE, ZeroPt, TRUE, TRUE)
        ELSE IF MatchPoint(a, {c}) THEN res(FALSE, ZeroPt, TRUE, TRUE)
        ELSE IF MatchPoint(b, {d}) THEN res(TRUE, b, TRUE, TRUE)
        ELSE IF MatchPoint(b, {c}) THEN res(TRUE, b, TRUE, TRUE)
        ELSE IF MatchPoint(a, {d}) THEN res(TRUE, a, TRUE, TRUE)
        ELSE IF GtZeroish2(r)
        THEN crossed(crossPoint(a, b, c, d),
                     Pt(max(bbAB.ll.X, bbCD.ll.X), max(bbAB.ll.Y, bbCD.ll.Y)),
                     Pt(min(bbAB.tr.X, bbCD.tr.X), min(bbAB.tr.Y, bbCD.tr.Y)))
        ELSE IF GtZeroish2(closeness) THEN res(FALSE, a, TRUE, TRUE)
        ELSE IF cD * ZeroishInv < Dot(u, u) \/ dD * ZeroishInv < Dot(u, u)
        THEN res(TRUE, a, TRUE, TRUE)
        ELSE IF cD < dD THEN res(TRUE, c, TRUE, TRUE)
        ELSE res(TRUE, d, TRUE, TRUE)
    IN  sided(boxed(BB(a, b), BB(c, d)))

(***************************************************************************)
(* dissolve.  The Go code edits the slice s.PS in place: deleting element  *)
(* bI shifts the later elements of the backing array one place down, while *)
(* s.PS keeps its length.  dissolveLoop returns the dissolved points (pts) *)
(* and what the receiver's PS holds afterwards (pts followed by stale).    *)
(***************************************************************************)
\* |u.Dot(v) - 1| < Zeroish2 for the unit vectors u = a->b and v = a->c: on
\* whole-number coordinates of the model's size the angle between two
\* directions that differ is far larger than 1e-6, so this is "same direction"
SameDirection(a, b, c) ==
    LET ab == Pt(b.X - a.X, b.Y - a.Y)
        ac == Pt(c.X - a.X, c.Y - a.Y)
    IN  ab.X * ac.Y - ab.Y * ac.X = 0 /\ Dot(ab, ac) > 0

RECURSIVE dissolveLoop(_, _, _)
dissolveLoop(pts, stale, i) ==
    IF i >= Len(pts) THEN [pts |-> pts, stale |-> stale]
    ELSE LET n   == Len(pts)
             a   == At(pts, i)
             bI  == (i + 1) % n
             b   == At(pts, bI)
             c   == At(pts, (i + 2) % n)
             bad == \/ MatchPoint(a, {b})
                    \/ UnitErr(a, b)
                    \/ MatchPoint(b, {c})
                    \/ UnitErr(a, c)
                    \/ SameDirection(a, b, c)
         IN  IF ~bad THEN dissolveLoop(pts, stale, i + 1)
             ELSE dissolveLoop(RemoveAt(pts, bI), <<At(pts, n - 1)>> \o stale, i)

\* A faulty variant of dissolveEnd: the receiver keeps its points.
dissolveOnCopy(s, l, r) ==
    [err  |-> r.err,
     poly |-> IF r.err THEN NoShape ELSE [r.s EXCEPT !.Index = s.Index],
     recv |-> s]

\* the end of dissolve: l is what its loop left, r what Rationalize(pts)
\* returned; recv is the receiver afterwards
dissolveEnd(s, l, r) ==
    [err  |-> r.err,
     poly |-> IF r.err THEN NoShape ELSE [r.s EXCEPT !.Index = s.Index],
     recv |-> [s EXCEPT !.PS = l.pts \o l.stale]]

dissolveOf(s, l) == dissolveEnd(s, l, Rationalize(l.pts))

\* (s *Shape) dissolve(): (poly, err), and recv
dissolve(s) == dissolveOf(s, dissolveLoop(s.PS, <<>>, 0))

(***************************************************************************)
(* How a call ended.  "ok": it returned; "fatal": log.Fatalf; "panic": an  *)
(* index out of range; "diverged": a loop that never ends; "inexact": the  *)
(* float64 arithmetic left the regime the model computes exactly.          *)
(***************************************************************************)
Then(st1, st2) == IF st1 # "ok" THEN st1 ELSE st2

(***************************************************************************)
(* Point in polygon, convex hull.                                          *)
(***************************************************************************)
\* the loop of prunedInside that steps prev back over the skipped points:
\* ret says that prunedInside returns false from inside that loop, panic that
\* the loop reads p.PS[-1]
RECURSIVE prevUnskipped(_, _, _, _)
prevUnskipped(ps, skip, prev, i) ==
    IF prev \notin skip THEN [ret |-> FALSE, panic |-> FALSE, prev |-> prev]
    ELSE IF i = 1 THEN [ret |-> TRUE, panic |-> FALSE, prev |-> prev]
    ELSE IF i < 0 THEN [ret |-> TRUE, panic |-> TRUE, prev |-> prev]
    ELSE prevUnskipped(ps, skip, At(ps, i), i - 1)

\* the loop of prunedInside over the points of p.PS, from element k on
RECURSIVE rayLoop(_, _, _, _, _, _, _, _, _)
rayLoop(a, to, ps, skip, prev, k, inside, was, st) ==
    IF k >= Len(ps) THEN [in |-> inside, st |-> st]
    ELSE LET next == At(ps, k)
         IN  IF next \in skip
             THEN rayLoop(a, to, ps, skip, prev, k + 1, inside, was, st)
             ELSE LET is == IF (next.Y - prev.Y) * ZeroishInv > 1 THEN 1
                            ELSE IF (next.Y - prev.Y) * ZeroishInv < -1 THEN -1
                            ELSE 0
                      \* the rest of the loop, x being what intersect returned
                      \* and flip saying that inside changes
                      on(x, flip) ==
                          rayLoop(a, to, ps, skip, next, k + 1,
                                  IF flip THEN ~inside ELSE inside,
                                  IF ~x.hit THEN 0 ELSE IF flip THEN is ELSE was,
                                  Then(st, IF x.exact THEN "ok" ELSE "inexact"))
                      hit(x) == on(x, x.hit /\ is # 0 /\ is # was)
                  IN  hit(intersect(a, to, prev, next))

\* (a Point) prunedInside(p, skip); a nil skip behaves as the empty map
prunedInside(a, p, skip) ==
    IF a.X < p.MinX \/ a.X > p.MaxX \/ a.Y < p.MinY \/ a.Y > p.MaxY
    THEN [in |-> FALSE, st |-> "ok"]
    ELSE LET to == Pt(p.MaxX + 1, a.Y)
             from(pv) ==
                 IF pv.ret THEN [in |-> FALSE, st |-> IF pv.panic THEN "panic" ELSE "ok"]
                 ELSE rayLoop(a, to, p.PS, skip, pv.prev, 0, FALSE, 0, "ok")
         IN  from(prevUnskipped(p.PS, skip, At(p.PS, Len(p.PS) - 1), Len(p.PS) - 2))

\* (a Point) Inside(p)
Inside(a, p) == prunedInside(a, p, {})

RECURSIVE hullLoop(_, _, _, _, _)

\* the body of the loop of Hull, in being pt.prunedInside(hull, contained)
hullNext(hull, contained, revisit, i, pt, in) ==
    IF ~in.in
    THEN hullLoop(hull, contained \ {pt}, FALSE,
                  IF revisit THEN max(i - 1, 1) ELSE i + 1, in.st)
    ELSE hullLoop([hull EXCEPT !.PS = RemoveAt(hull.PS, i)],
                  contained \cup {pt}, TRUE, i, in.st)

\* the loop of Hull
hullLoop(hull, contained, revisit, i, st) ==
    IF i >= Len(hull.PS) \/ st # "ok"
    THEN [hull |-> hull, contained |-> contained, st |-> st]
    ELSE hullNext(hull, contained, revisit, i, At(hull.PS, i),
                  prunedInside(At(hull.PS, i), hull, contained \cup {At(hull.PS, i)}))

\* (p *Shape) Hull(): (hull, contained)
Hull(p) == hullLoop(p, {}, FALSE, 1, "ok")

(***************************************************************************)
(* crossings.  On whole-number points MatchPoint is equality, so the code  *)
(* that moves a point onto a close one never fires; a crossing point off   *)
(* the whole-number grid ends the call as "inexact".                       *)
(***************************************************************************)
\* the loop over j of crossings, for the line from n1[i] to b
RECURSIVE crossingsInner(_, _, _, _, _, _, _)
crossingsInner(n1, n2, hits, i, j, b, st) ==
    IF j >= Len(n2) \/ st # "ok"
    THEN [n1 |-> n1, n2 |-> n2, hits |-> hits, st |-> st]
    ELSE LET a == At(n1, i)
             c == At(n2, j)
             d == At(n2, (j + 1) % Len(n2))
             \* the hit e is put into n1 if in1 and into n2 if in2
             put(e, in1, in2) ==
                 crossingsInner(IF in1 THEN InsertAt(n1, i + 1, e) ELSE n1,
                                IF in2 THEN InsertAt(n2, j + 1, e) ELSE n2,
                                hits \cup {e}, i,
                                IF in2 THEN j ELSE j + 1,
                                IF in1 THEN e ELSE b, st)
             \* the body of the loop, x being what intersect returned
             on(x) ==
                 IF ~x.exact
                 THEN crossingsInner(n1, n2, hits, i, j, b, "inexact")
                 ELSE IF ~x.hit
                 THEN crossingsInner(n1, n2, hits, i, j + 1, b, st)
                 ELSE IF ~x.grid
                 THEN crossingsInner(n1, n2, hits, i, j, b, "inexact")
                 ELSE put(x.at, ~MatchPoint(x.at, {a, b}), ~MatchPoint(x.at, {c, d}))
         IN  on(intersect(a, b, c, d))

RECURSIVE crossingsOuter(_, _, _, _, _)

\* the loop over i of crossings after the loop over j, which left r
crossingsNext(i, r) == crossingsOuter(r.n1, r.n2, r.hits, i + 1, r.st)

\* the loop over i of crossings
crossingsOuter(n1, n2, hits, i, st) ==
    IF i >= Len(n1) \/ st # "ok"
    THEN [n1 |-> n1, n2 |-> n2, hits |-> hits, st |-> st]
    ELSE crossingsNext(i, crossingsInner(n1, n2, hits, i, 0,
                                         At(n1, (i + 1) % Len(n1)), st))

\* what crossings returns: d1 and d2 are what dissolve gave for p1 and p2, r
\* what the loops left
crossingsEnd(d1, d2, r) ==
    [st |-> r.st, hits |-> r.hits,
     n1 |-> [d1.poly EXCEPT !.PS = r.n1],
     n2 |-> [d2.poly EXCEPT !.PS = r.n2],
     r1 |-> d1.recv, r2 |-> d2.recv]

crossingsOf(d1, d2, p2) ==
    IF d1.err
    THEN [st |-> "fatal", hits |-> {}, n1 |-> NoShape, n2 |-> NoShape,
          r1 |-> d1.recv, r2 |-> p2]
    ELSE IF d2.err
    THEN [st |-> "fatal", hits |-> {}, n1 |-> NoShape, n2 |-> NoShape,
          r1 |-> d1.recv, r2 |-> d2.recv]
    ELSE crossingsEnd(d1, d2, crossingsOuter(d1.poly.PS, d2.poly.PS, {}, 0, "ok"))

\* crossings(p1, p2): (hits, n1, n2); r1 and r2 are p1 and p2 afterwards
crossings(p1, p2) == crossingsOf(dissolve(p1), dissolve(p2), p2)

(***************************************************************************)
(* insider.                                                                *)
(***************************************************************************)
\* the status of the Inside calls insider makes for the points of a shape,
\* ins[k] being what Inside returned for point k
InsideAllSt(ins) ==
    IF \E k \in DOMAIN ins : ins[k].st = "inexact" THEN "inexact"
    ELSE IF \E k \in DOMAIN ins : ins[k].st # "ok" THEN "panic"
    ELSE "ok"

\* the part of insider that decides aInB: every point of a that is not a
\* crossing point is inside b, and no crossing point lies within a's hull
insiderHalf(hits, a, b) ==
    LET hulled(st, h) ==
            [in |-> h.contained \cap hits = {}, st |-> Then(st, h.st)]
        of(ins) ==
            IF \E k \in DOMAIN ins : a.PS[k] \notin hits /\ ~ins[k].in
            THEN [in |-> FALSE, st |-> InsideAllSt(ins)]
            ELSE hulled(InsideAllSt(ins), Hull(a))
    IN  of([k \in 1..Len(a.PS) |-> Inside(a.PS[k], b)])

\* insider(hits, a, b): (aInB, bInA)
insider(hits, a, b) ==
    IF Len(a.PS) = Cardinality(hits) /\ Len(b.PS) = Cardinality(hits)
    THEN [aInB |-> TRUE, bInA |-> TRUE, st |-> "ok"]
    ELSE LET both(x, y) == [aInB |-> x.in, bInA |-> y.in, st |-> Then(x.st, y.st)]
         IN  IF Cardinality(hits) = 0
             THEN both(Inside(At(a.PS, 0), b), Inside(At(b.PS, 0), a))
             ELSE both(insiderHalf(hits, a, b), insiderHalf(hits, b, a))

\* insider(hits, p1, p2) on what crossings returned, if it returned
insiderOf(c) ==
    IF c.st # "ok" THEN [aInB |-> FALSE, bInA |-> FALSE, st |-> c.st]
    ELSE insider(c.hits, c.n1, c.n2)

ShapeInsideEnd(c, r) ==
    [aInB |-> r.aInB, bInA |-> r.bInA, st |-> r.st, r1 |-> c.r1, r2 |-> c.r2]

ShapeInsideOf(c) == ShapeInsideEnd(c, insiderOf(c))

\* (a *Shape) Inside(b): (aInB, bInA); r1 and r2 are a and b afterwards
ShapeInside(a, b) == ShapeInsideOf(crossings(a, b))

(***************************************************************************)
(* outlines.                                                               *)
(***************************************************************************)
\* Sprint("(", a, op, b, ")") on Index strings, kept as lists of tokens
Paren(a, op, b) == <<"(">> \o a \o <<op>> \o b \o <<")">>

\* the first loop of outlines: the walk around the outer boundary
RECURSIVE walk(_, _, _, _, _, _, _, _, _, _)
walk(src1, src2, offset1, offset2, i, j, lockedOn, used, pts, hits) ==
    IF i >= Len(src1) THEN [pts |-> pts, used |-> used, st |-> "ok"]
    ELSE LET pt1 == At(src1, (offset1 + i) % Len(src1))
         IN  IF pt1 \notin hits
             THEN walk(src1, src2, offset1, offset2, i + 1, j, lockedOn,
                       used \cup {pt1}, Append(pts, pt1), hits)
             ELSE IF pt1 \notin Range(src2)
             THEN \* the search for pt1 in src2 steps round src2 for ever
                  [pts |-> pts, used |-> used, st |-> "diverged"]
             ELSE IF At(src2, (offset2 + j) % Len(src2)) # pt1
             THEN IF lockedOn
                  THEN walk(src1, src2, offset1, offset2, i, j + 1, lockedOn,
                            used, pts, hits)
                  ELSE walk(src1, src2, offset1, offset2 + 1, i, j, lockedOn,
                            used, pts, hits)
             ELSE LET ptKeep == At(src1, (offset1 + i + 1) % Len(src1))
                      ptSwap == At(src2, (offset2 + j + 1) % Len(src2))
                  IN  IF moreClockwise(pt1, ptSwap, ptKeep)
                      THEN walk(src2, src1, offset2, offset1, j + 1, i + 1, TRUE,
                                used, Append(pts, pt1), hits)
                      ELSE walk(src1, src2, offset1, offset2, i + 1, j, TRUE,
                                used, Append(pts, pt1), hits)

\* the inner loop of the second part of outlines: from extra1[i] on, collect
\* points up to and including the next crossing point
RECURSIVE holeScan(_, _, _, _, _, _)
holeScan(extra1, hits, i, pts, dup, pt1) ==
    IF i >= Len(extra1) THEN [i |-> i, pts |-> pts, dup |-> dup, pt1 |-> pt1]
    ELSE LET q == At(extra1, i)
         IN  IF q \in hits
             THEN [i |-> i, pts |-> Append(pts, q), dup |-> dup, pt1 |-> q]
             ELSE holeScan(extra1, hits, i + 1, Append(pts, q), FALSE, q)

\* the loop over j that closes a residual ring along extra2
RECURSIVE holeClose(_, _, _, _, _, _, _)
holeClose(extra2, hits, offset, j, pt0, pts, dup) ==
    IF j >= Len(extra2) THEN [pts |-> pts, dup |-> dup]
    ELSE LET pt2 == At(extra2, (offset + j) % Len(extra2))
         IN  IF pt2 = pt0 THEN [pts |-> pts, dup |-> dup]
             ELSE holeClose(extra2, hits, offset, j + 1, pt0, Append(pts, pt2),
                            dup /\ pt2 \in hits)

\* the index of the first element of s equal to e, Len(s) if there is none
RECURSIVE IndexOf(_, _, _)
IndexOf(s, e, k) ==
    IF k >= Len(s) THEN k ELSE IF At(s, k) = e THEN k ELSE IndexOf(s, e, k + 1)

\* the second part of outlines: the residual rings that are holes
RECURSIVE holes(_, _, _, _, _, _, _)
holes(extra1, extra2, hits, i, polys, ix1, ix2) ==
    IF i >= Len(extra1) THEN polys
    ELSE LET pt0 == At(extra1, i)
             sc  == holeScan(extra1, hits, i + 1, <<pt0>>, TRUE, ZeroPt)
             cl  == holeClose(extra2, hits, IndexOf(extra2, sc.pt1, 0), 1, pt0,
                              sc.pts, sc.dup)
             r   == Rationalize(cl.pts)
             inc == ~cl.dup /\ Len(cl.pts) > 2 /\ ~r.err /\ r.s.Hole
             s   == [r.s EXCEPT !.Index = <<"(">> \o ix1 \o <<"-">> \o ix2
                                          \o <<"|", ToString(Len(polys) + 1)>>]
         IN  holes(extra1, extra2, hits, sc.i,
                   IF inc THEN Append(polys, s) ELSE polys, ix1, ix2)

\* the elements of s that are not in the set used
RECURSIVE Unused(_, _)
Unused(s, used) ==
    IF s = <<>> THEN <<>>
    ELSE (IF Head(s) \in used THEN <<>> ELSE <<Head(s)>>) \o Unused(Tail(s), used)

\* the rest of outlines, u being Rationalize(pts) for the points of the walk w
outlinesUnion(p1, p2, hits, w, u) ==
    IF u.err THEN [st |-> "fatal", P |-> <<>>]
    ELSE [st |-> "ok",
          P  |-> holes(Unused(p1.PS, w.used), Unused(p2.PS, w.used), hits, 0,
                       <<[u.s EXCEPT !.Index = Paren(p1.Index, "+", p2.Index)]>>,
                       p1.Index, p2.Index)]

outlinesWalked(p1, p2, hits, w) ==
    IF w.st # "ok" THEN [st |-> w.st, P |-> <<>>]
    ELSE outlinesUnion(p1, p2, hits, w, Rationalize(w.pts))

\* outlines(p1, p2, hits): the shapes of the *Shapes returned
outlines(p1, p2, hits) ==
    outlinesWalked(p1, p2, hits, walk(p1.PS, p2.PS, 0, 0, 0, 0, FALSE, {}, <<>>, hits))

(***************************************************************************)
(* combine, Reorder, Add.                                                  *)
(***************************************************************************)
\* the bounding boxes of p1 and p2 do not overlap
BoxesApart(p1, p2) ==
    p1.MinX > p2.MaxX \/ p1.MaxX < p2.MinX \/ p1.MinY > p2.MaxY \/ p1.MaxY < p2.MinY

\* the loop of combine over the shapes outlines returned: those that dissolve
\* are kept and named, ix being Sprint(p1.Index, "^", p2.Index)
RECURSIVE combinePolys(_, _, _)
combinePolys(polys, acc, ix) ==
    IF polys = <<>> THEN acc
    ELSE LET next(d) ==
                 combinePolys(Tail(polys),
                     IF d.err THEN acc
                     ELSE Append(acc, [d.poly EXCEPT !.Index =
                                          ix \o <<".", ToString(Len(acc))>>]),
                     ix)
         IN  next(dissolve(Head(polys)))

\* what combine returns, and p afterwards
combined(p, P, banked, st) ==
    [p |-> [p EXCEPT !.P = P], banked |-> banked, st |-> st]

\* A faulty variant of combineOutlined: the shapes formerly between n and m
\* come before the shapes of the merge.
combineOutlinedLast(p, P1, n, m, c, o) ==
    IF o.st # "ok" THEN combined(p, P1, m + 1, o.st)
    ELSE combined(p,
                  SubSeq(P1, 1, n) \o SubSeq(P1, n + 2, m)
                      \o combinePolys(o.P, <<>>, c.n1.Index \o <<"^">> \o c.n2.Index)
                      \o SubSeq(P1, m + 2, Len(P1)),
                  n + 1, "ok")

\* combine from the call of outlines on: o is what outlines returned
combineOutlined(p, P1, n, m, c, o) ==
    IF o.st # "ok" THEN combined(p, P1, m + 1, o.st)
    ELSE combined(p,
                  SubSeq(P1, 1, n)
                      \o combinePolys(o.P, <<>>, c.n1.Index \o <<"^">> \o c.n2.Index)
                      \o SubSeq(P1, n + 2, m) \o SubSeq(P1, m + 2, Len(P1)),
                  n + 1, "ok")

\* combine from the call of insider on: ins is what insider returned
combineInsider(p, P1, n, m, c, ins) ==
    IF ins.st # "ok" THEN combined(p, P1, m + 1, ins.st)
    ELSE IF ins.bInA THEN combined(p, RemoveAt(P1, m), m, "ok")
    ELSE IF ins.aInB THEN combined(p, RemoveAt(P1, n), n + 1, "ok")
    ELSE IF Cardinality(c.hits) < 2 THEN combined(p, P1, m + 1, "ok")
    ELSE combineOutlined(p, P1, n, m, c, outlines(c.n1, c.n2, c.hits))

\* combine from the call of crossings on: c is what crossings returned, and
\* p.P[n] is dissolved in place
combineCrossed(p, P0, n, m, c) ==
    combineInsider(p, SetAt(P0, n, c.r1), n, m, c, insiderOf(c))

\* combine after p2, err := p.P[m].dissolve(), which dissolves p.P[m] in place
combineDissolved(p, P0, n, m, d) ==
    IF d.err THEN combined(p, RemoveAt(P0, m), m, "ok")
    ELSE IF d.poly.Hole THEN combined(p, P0, m + 1, "ok")
    ELSE IF BoxesApart(At(P0, n), d.poly) THEN combined(p, P0, m + 1, "ok")
    ELSE combineCrossed(p, P0, n, m, crossings(At(P0, n), d.poly))

combineOf(p, n, m, d) == combineDissolved(p, SetAt(p.P, m, d.recv), n, m, d)

\* (p *Shapes) combine(n, m): banked, and p afterwards
combine(p, n, m) == combineOf(p, n, m, dissolve(At(p.P, m)))

\* A faulty variant of cf: on equal lower-left corners the smaller MaxX sorts
\* first.
cfSmallerFirst(a, b) ==
    IF a.MinX # b.MinX THEN a.MinX < b.MinX
    ELSE IF a.MinY # b.MinY THEN a.MinY < b.MinY
    ELSE IF a.MaxX # b.MaxX THEN a.MaxX < b.MaxX
    ELSE a.MaxY > b.MaxY

\* cf of Reorder: a sorts before b
cf(a, b) ==
    IF a.MinX # b.MinX THEN a.MinX < b.MinX
    ELSE IF a.MinY # b.MinY THEN a.MinY < b.MinY
    ELSE IF a.MaxX # b.MaxX THEN a.MaxX > b.MaxX
    ELSE a.MaxY > b.MaxY

\* sort.Slice on at most 12 elements is an insertion sort: e moves down past
\* every element it sorts before
RECURSIVE InsertSorted(_, _)
InsertSorted(P, e) ==
    IF P = <<>> THEN <<e>>
    ELSE IF cf(e, P[Len(P)]) THEN Append(InsertSorted(SubSeq(P, 1, Len(P) - 1), e), P[Len(P)])
    ELSE Append(P, e)

RECURSIVE SortShapes(_, _)
SortShapes(P, k) ==
    IF k = 0 THEN <<>> ELSE InsertSorted(SortShapes(P, k - 1), P[k])

\* (p *Shapes) Reorder(): p afterwards
Reorder(p) == [p EXCEPT !.P = SortShapes(p.P, Len(p.P))]

\* the loop of Add over the shapes of s, from element k on
RECURSIVE AddLoop(_, _, _)
AddLoop(p, sP, k) ==
    IF k >= Len(sP) THEN [p |-> p, st |-> "ok"]
    ELSE LET o == At(sP, k)
             \* r is what Builder's Append returned, poly the shape it added
             named(r, poly) ==
                 IF r.err THEN [p |-> p, st |-> "panic"]
                 ELSE AddLoop([r.p EXCEPT !.P = SetAt(r.p.P, Len(r.p.P) - 1,
                                  [poly EXCEPT !.Index = poly.Index \o <<".">> \o o.Index])],
                              sP, k + 1)
             built(r) == named(r, At(r.p.P, Len(r.p.P) - 1))
         IN  built(ShapesAppend(p, o.PS))

\* A faulty variant of Add: the loop starts at the second shape of s.
AddFromSecond(p, s) ==
    LET reordered(r) ==
            IF r.st # "ok" THEN r
            ELSE IF r.p.nil THEN [p |-> r.p, st |-> "panic"]
            ELSE [p |-> Reorder(r.p), st |-> "ok"]
    IN  reordered(IF s.nil THEN [p |-> p, st |-> "ok"] ELSE AddLoop(p, s.P, 1))

\* (p *Shapes) Add(s): the collection returned
Add(p, s) ==
    LET reordered(r) ==
            IF r.st # "ok" THEN r
            ELSE IF r.p.nil THEN [p |-> r.p, st |-> "panic"]
            ELSE [p |-> Reorder(r.p), st |-> "ok"]
    IN  reordered(IF s.nil THEN [p |-> p, st |-> "ok"] ELSE AddLoop(p, s.P, 0))

(***************************************************************************)
(* trimHole and Union.  A shape is a pointer in the Go code: crossings     *)
(* dissolves p.P[i] and ref.P[j] in place, and the hole trimHole puts into *)
(* holed is the very shape p1.Inside(s) goes on to dissolve.               *)
(***************************************************************************)
\* the shapes without their names: all that a step of Union computes from
Geo(P) == [k \in 1..Len(P) |-> [P[k] EXCEPT !.Index = <<>>]]

\* the loop of trimHole over the shapes outlines returned: the holes that
\* dissolve are kept and named
RECURSIVE trimPolys(_, _, _)
trimPolys(polys, acc, ix) ==
    IF polys = <<>> THEN acc
    ELSE LET next(d) ==
                 trimPolys(Tail(polys),
                     IF ~Head(polys).Hole \/ d.err THEN acc
                     ELSE Append(acc, [d.poly EXCEPT !.Index =
                             ix \o <<"%">> \o d.poly.Index \o <<".", ToString(Len(acc))>>]),
                     ix)
         IN  next(dissolve(Head(polys)))

RECURSIVE trimLoop(_, _, _, _, _)

\* trimHole returns from inside its first loop
trimReturn(Q, R1, islands, st) ==
    [P |-> Q, R |-> R1, ret |-> TRUE, islands |-> islands, st |-> st]

\* the first loop of trimHole once the hole is replaced by its fragments polys
trimFragments(P1, R1, i, j, islands, polys) ==
    IF polys = <<>> THEN trimReturn(RemoveAt(P1, i), R1, islands, "ok")
    ELSE trimLoop(SubSeq(P1, 1, i) \o polys \o SubSeq(P1, i + 2, Len(P1)), R1, i,
                  j + 1, islands)

\* the first loop of trimHole from the call of outlines on
trimOutlined(P1, R1, i, j, islands, c, o) ==
    IF o.st # "ok" THEN trimReturn(P1, R1, islands, o.st)
    ELSE trimFragments(P1, R1, i, j, islands, trimPolys(o.P, <<>>, c.n1.Index))

\* the first loop of trimHole from the call of insider on
trimInsider(P1, R1, i, j, islands, c, ins) ==
    IF ins.st # "ok" THEN trimReturn(P1, R1, islands, ins.st)
    ELSE IF ins.aInB THEN trimReturn(RemoveAt(P1, i), R1, islands, "ok")
    ELSE IF ins.bInA THEN trimLoop(P1, R1, i, j + 1, TRUE)
    ELSE IF Cardinality(c.hits) < 2 THEN trimLoop(P1, R1, i, j + 1, islands)
    ELSE trimOutlined(P1, R1, i, j, islands, c, outlines(c.n1, c.n2, c.hits))

\* the first loop of trimHole from the call of crossings on, which dissolves
\* p.P[i] and ref.P[j] in place
trimCrossed(P, R, i, j, islands, c) ==
    trimInsider(SetAt(P, i, c.r1), SetAt(R, j, c.r2), i, j, islands, c, insiderOf(c))

\* the first loop of trimHole, over ref.P[j]; P is p.P and R is ref.P.  ret:
\* trimHole returns from inside the loop
trimLoop(P, R, i, j, islands) ==
    IF j >= Len(R)
    THEN [P |-> P, R |-> R, ret |-> FALSE, islands |-> islands, st |-> "ok"]
    ELSE IF BoxesApart(At(P, i), At(R, j)) THEN trimLoop(P, R, i, j + 1, islands)
    ELSE trimCrossed(P, R, i, j, islands, crossings(At(P, i), At(R, j)))

RECURSIVE objsLoop(_, _, _, _)

\* the body of the second loop of trimHole, in being p1.Inside(s), which
\* dissolves both p.P[i] and s = p.P[k] in place
objsNext(P, i, k, objs, in) ==
    IF in.st # "ok"
    THEN [P |-> SetAt(SetAt(P, i, in.r1), k, in.r2), objs |-> objs, st |-> in.st]
    ELSE objsLoop(SetAt(SetAt(P, i, in.r1), k, in.r2), i, k + 1,
                  IF in.bInA THEN objs \cup {k} ELSE objs)

\* the second loop of trimHole: the shapes after the hole p.P[i] that fall
\* inside it (objs)
objsLoop(P, i, k, objs) ==
    IF k >= Len(P) THEN [P |-> P, objs |-> objs, st |-> "ok"]
    ELSE objsNext(P, i, k, objs, ShapeInside(At(P, i), At(P, k)))

\* the elements of P (from element k on) whose place is in the set keep
RECURSIVE Pick(_, _, _)
Pick(P, keep, k) ==
    IF k >= Len(P) THEN <<>>
    ELSE (IF k \in keep THEN <<At(P, k)>> ELSE <<>>) \o Pick(P, keep, k + 1)

RECURSIVE UnionLoop(_, _, _, _, _, _)

\* (p *Shapes) Union(), followed for at most fuel passes: p afterwards
UnionFn(p, fuel) ==
    IF p.nil \/ Len(p.P) < 2 THEN [p |-> p, st |-> "ok"]
    ELSE UnionLoop(Reorder(p), Duplicate(Reorder(p)), NilShapes, 0, 1, fuel)

\* what trimHole returns (the index i and holed), with p and ref afterwards
trimmed(p, ref, P, h, i, st) ==
    [p |-> [p EXCEPT !.P = P], ref |-> ref, holed |-> h, j |-> i, st |-> st]

\* the end of trimHole: ad is what holed.Add(inner) returned
trimHoleAdded(p, i, ref, ob, ad) ==
    trimmed(p, ref, Pick(ob.P, (0..(Len(ob.P) - 1)) \ (ob.objs \cup {i}), 0),
            ad.p, i, ad.st)

\* trimHole after inner.Union()
trimHoleInner(p, i, ref, h2, ob, inner) ==
    IF inner.st # "ok" THEN trimmed(p, ref, ob.P, h2, i, inner.st)
    ELSE trimHoleAdded(p, i, ref, ob, Add(h2, inner.p))

\* trimHole after its second loop, which left ob; the hole in holed (h2) is
\* the shape p.P[i], as that loop left it
trimHoleObjs(p, i, ref, h2, fuel, ob) ==
    IF ob.st # "ok" THEN trimmed(p, ref, ob.P, h2, i, ob.st)
    ELSE IF ob.objs = {} THEN trimmed(p, ref, RemoveAt(ob.P, i), h2, i, "ok")
    ELSE IF fuel <= 0 THEN trimmed(p, ref, ob.P, h2, i, "fuel")
    ELSE trimHoleInner(p, i, ref, h2, ob,
             UnionFn([nil |-> FALSE, index |-> 0, P |-> Pick(ob.P, ob.objs, 0)],
                     fuel - 1))

trimHoleIslands(p, i, ref, h1, fuel, ob) ==
    trimHoleObjs(p, i, ref, [h1 EXCEPT !.P = SetAt(h1.P, Len(h1.P) - 1, At(ob.P, i))],
                 fuel, ob)

\* trimHole after its first loop, which left t
trimHoleTrimmed(p, i, ref, holed, fuel, t) ==
    IF t.ret THEN trimmed(p, ref, t.P, holed, i, t.st)
    ELSE IF ~t.islands
    THEN trimmed(p, ref, RemoveAt(t.P, i), Include(holed, <<At(t.P, i)>>), i, "ok")
    ELSE trimHoleIslands(p, i, ref, Include(holed, <<At(t.P, i)>>), fuel,
                         objsLoop(t.P, i, i + 1, {}))

trimHoleOf(p, i, ref, holed, fuel, t) ==
    trimHoleTrimmed(p, i, [ref EXCEPT !.P = t.R], holed, fuel, t)

\* (p *Shapes) trimHole(i, ref, holed): (the index returned, holed), with p
\* and ref afterwards
trimHole(p, i, ref, holed, fuel) ==
    trimHoleOf(p, i, ref, holed, fuel, trimLoop(p.P, ref.P, i, i + 1, FALSE))

\* j = p.combine(i, j) as a pass through the body of Union's inner loop
combinePass(ref, holed, c) ==
    [p |-> c.p, ref |-> ref, holed |-> holed, j |-> c.banked, st |-> c.st]

\* A faulty variant of UnionControl: the inner loop goes on without testing
\* j < len(p.P).
UnionControlUntested(i, r) ==
    [p |-> r.p, ref |-> r.ref, holed |-> r.holed, st |-> r.st,
     i |-> i, j |-> r.j, done |-> i >= Len(r.p.P) - 1]

\* the loop control of Union after a pass r through the body of its inner
\* loop: done says that both loops have ended
UnionControl(i, r) ==
    LET n  == Len(r.p.P)
        i2 == IF r.j < n THEN i ELSE i + 1
        j2 == IF r.j < n THEN r.j ELSE i + 2
    IN  [p |-> r.p, ref |-> r.ref, holed |-> r.holed, st |-> r.st,
         i |-> i2, j |-> j2, done |-> i2 >= n - 1]

\* one pass through the body of Union's inner loop at (i, j): the call of
\* trimHole or of combine
UnionInner(p, ref, holed, i, j, fuel) ==
    IF At(p.P, j).Hole THEN trimHole(p, j, ref, holed, fuel)
    ELSE combinePass(ref, holed, combine(p, i, j))

\* the pass and the loop control that follows it
UnionBody(p, ref, holed, i, j, fuel) ==
    UnionControl(i, UnionInner(p, ref, holed, i, j, fuel))

\* The pass r through the body, made at (i, j) on p and ref, has left the
\* loop where it was: what the body computes depends on the shapes of p and
\* ref only through their points, flags and boxes, so the next pass, and
\* every pass after it, does the same again.
Stalls(p, ref, i, j, r) ==
    /\ ~r.done
    /\ r.i = i
    /\ r.j = j
    /\ Geo(r.ref.P) = Geo(ref.P)
    /\ Geo(r.p.P) = Geo(p.P)

\* the last statement of Union: p = p.Add(holed)
UnionEnd(p, holed) == Add(p, holed)

\* Union's loops after a pass r through the body
UnionLoopNext(p, ref, i, j, fuel, r) ==
    IF r.st # "ok" THEN [p |-> r.p, st |-> r.st]
    ELSE IF r.done THEN UnionEnd(r.p, r.holed)
    ELSE IF Stalls(p, ref, i, j, r) THEN [p |-> r.p, st |-> "diverged"]
    ELSE IF fuel <= 1 THEN [p |-> r.p, st |-> "fuel"]
    ELSE UnionLoop(r.p, r.ref, r.holed, r.i, r.j, fuel - 1)

\* Union's loops from (i, j) on
UnionLoop(p, ref, holed, i, j, fuel) ==
    UnionLoopNext(p, ref, i, j, fuel, UnionBody(p, ref, holed, i, j, fuel))

(***************************************************************************)
(* The rings handed to Append.  All are simple polygons, but for two lists *)
(* too short to be one: squares and rectangles, counter-clockwise and      *)
(* clockwise, two triangles, a diamond, a rectangle with a vertex in the   *)
(* middle of an edge, and an L listed from its inner corner.               *)
(***************************************************************************)
Sq(x0, y0, x1, y1) == <<Pt(x0, y0), Pt(x1, y0), Pt(x1, y1), Pt(x0, y1)>>

Rings ==
    { Sq(0, 0, 2, 2), Sq(0, 0, 4, 4), Sq(2, 2, 6, 6), Sq(0, 0, 4, 6),
      Sq(2, 2, 6, 4), Sq(2, 1, 4, 3),
      <<Pt(0, 0), Pt(0, 2), Pt(2, 2), Pt(2, 0)>>,
      <<Pt(0, 2), Pt(0, 4), Pt(2, 4), Pt(2, 2)>>,
      <<Pt(0, 0), Pt(8, 0), Pt(8, 8)>>,
      <<Pt(2, 0), Pt(6, 0), Pt(6, 4)>>,
      <<Pt(4, 0), Pt(8, 4), Pt(4, 8), Pt(0, 4)>>,
      <<Pt(0, 0), Pt(4, 0), Pt(8, 0), Pt(8, 4), Pt(0, 4)>>,
      <<Pt(4, 4), Pt(4, 8), Pt(0, 8), Pt(0, 0), Pt(8, 0), Pt(8, 4)>>,
      <<>>,
      <<Pt(0, 0), Pt(2, 2)>> }

(***************************************************************************)
(* The state machine: a caller builds a collection with Append and Invert  *)
(* and then calls Union, which is followed one pass of its inner loop at   *)
(* a time.                                                                 *)
(***************************************************************************)
VARIABLES
    p,        \* the caller's collection (*Shapes)
    pc,       \* "build"; "union" while Union runs; then how Union ended
    i,        \* Union's outer loop variable
    j,        \* Union's inner loop variable
    ref,      \* Union's ref
    holed,    \* Union's holed
    steps,    \* the number of passes through Union's inner loop so far
    inverts,  \* the number of Invert calls so far
    op,       \* the last call made, its arguments, whether it failed and p
              \* before it
    in0,      \* the collection Union was called on
    err,      \* the error the last call returned, or the panic it ended in
    dup,      \* the caller's second collection: dup := p.Duplicate()
    store,    \* where the shapes of p and of dup are kept: for each shape the
              \* address of its Shape and that of the array of its PS
    recv,     \* the collection the last call was made on: "p" or "dup"
    out       \* what the last call of a function of the package returned; of
              \* a pass of Union's inner loop: the i it was made at, the j
              \* that trimHole or combine returned, p after it and how it
              \* ended

\* the caller's second collection and what goes with it, and out
second == <<dup, store, recv, out>>

vars == <<p, pc, i, j, ref, holed, steps, inverts, op, in0, err, dup, store, recv, out>>

Call(name, pts, idx, failed, before) ==
    [name |-> name, pts |-> pts, idx |-> idx, err |-> failed, before |-> before]

Init ==
    /\ p = NilShapes
    /\ pc = "build"
    /\ i = 0
    /\ j = 0
    /\ ref = NilShapes
    /\ holed = NilShapes
    /\ steps = 0
    /\ inverts = 0
    /\ op = Call("none", <<>>, 0, FALSE, NilShapes)
    /\ in0 = NilShapes
    /\ err = NoError
    /\ dup = NilShapes
    /\ store = [p |-> <<>>, dup |-> <<>>]
    /\ recv = "p"
    /\ out = <<>>

\* p, err = p.Append(pts...)
AppendOp ==
    /\ pc = "build"
    /\ Len(p.P) < MaxShapes
    /\ \E pts \in Rings :
          LET r == ShapesAppend(p, pts)
          IN  /\ p' = r.p
              /\ op' = Call("Append", pts, 0, r.err, p)
              /\ err' = RationalizeError(pts)
    /\ UNCHANGED <<pc, i, j, ref, holed, steps, inverts, in0, second>>

\* err = p.Invert(idx); on a p that is nil its first statement, which reads
\* p.P, panics
InvertOp ==
    /\ pc = "build"
    /\ inverts < MaxInverts
    /\ \E idx \in (-1)..Len(p.P) :
          IF p.nil
          THEN /\ p' = p
               /\ op' = Call("Invert", <<>>, idx, TRUE, p)
               /\ err' = NilDereference
               /\ pc' = "panic"
          ELSE LET r == Invert(p, idx)
               IN  /\ p' = r.p
                   /\ op' = Call("Invert", <<>>, idx, r.err, p)
                   /\ err' = InvertError(p, idx)
                   /\ pc' = pc
    /\ inverts' = inverts + 1
    /\ UNCHANGED <<i, j, ref, holed, steps, in0, second>>

\* err = p.Inflate(idx, 0); on a p that is nil its first statement, which
\* reads p.P, panics
InflateOp ==
    /\ pc = "build"
    /\ \E idx \in (-1)..Len(p.P) :
          IF p.nil
          THEN /\ op' = Call("Inflate", <<>>, idx, TRUE, p)
               /\ err' = NilDereference
               /\ pc' = "panic"
               /\ p' = p
          ELSE LET r == Inflate(p, idx, 0)
               IN  /\ p' = r.p
                   /\ op' = Call("Inflate", <<>>, idx, r.err # NoError, p)
                   /\ err' = r.err
                   /\ pc' = pc
    /\ UNCHANGED <<i, j, ref, holed, steps, inverts, in0, second>>

\* what a call of Slice or VSlice that returned r leaves
Sliced(name, idx, r) ==
    /\ op' = Call(name, <<>>, idx, r.err # NoError, p)
    /\ err' = r.err
    /\ UNCHANGED <<p, pc, i, j, ref, holed, steps, inverts, in0, second>>

\* lines, err = p.Slice(idx, d), with d twice the side of the grid
SliceOp ==
    /\ pc = "build"
    /\ \E idx \in (-1)..Len(p.P) : Sliced("Slice", idx, Slice(p, idx, 2 * GridMax))

\* lines, err = p.VSlice(idx, d), with d twice the side of the grid
VSliceOp ==
    /\ pc = "build"
    /\ \E idx \in (-1)..Len(p.P) : Sliced("VSlice", idx, VSlice(p, idx, 2 * GridMax))

\* p.Union() up to the first pass through its loops
UnionBegin ==
    /\ pc = "build"
    /\ in0' = p
    /\ op' = Call("Union", <<>>, 0, FALSE, p)
    /\ err' = NoError
    /\ IF p.nil \/ Len(p.P) < 2
       THEN /\ pc' = "done"
            /\ UNCHANGED <<p, i, j, ref, holed>>
       ELSE /\ pc' = "union"
            /\ p' = Reorder(p)
            /\ ref' = Duplicate(Reorder(p))
            /\ holed' = NilShapes
            /\ i' = 0
            /\ j' = 1
    /\ UNCHANGED <<steps, inverts, second>>

\* the state after a pass b through the body of Union's inner loop, r being
\* the loop control after it and e what p.Add(holed) returned if that pass
\* ended both loops
UnionAfter(b, r, e) ==
    /\ op' = Call("UnionStep", <<>>, j, FALSE, p)
    /\ out' = [i |-> i, j |-> b.j, p |-> b.p, st |-> b.st]
    /\ ref' = r.ref
    /\ i' = r.i
    /\ j' = r.j
    /\ holed' = r.holed
    /\ p' = e.p
    /\ pc' = IF r.st # "ok" THEN r.st
             ELSE IF r.done THEN (IF e.st = "ok" THEN "done" ELSE e.st)
             ELSE IF Stalls(p, ref, i, j, r) THEN "stalled"
             ELSE "union"

UnionControlled(b, r) ==
    UnionAfter(b, r, IF r.st = "ok" /\ r.done THEN UnionEnd(r.p, r.holed)
                     ELSE [p |-> r.p, st |-> "ok"])

UnionPass(b) == UnionControlled(b, UnionControl(i, b))

\* one pass through the body of Union's inner loop; the pass that ends both
\* loops goes on to p = p.Add(holed) and returns
UnionStep ==
    /\ pc = "union"
    /\ steps < MaxSteps
    /\ UnionPass(UnionInner(p, ref, holed, i, j, MaxFuel))
    /\ steps' = steps + 1
    /\ UNCHANGED <<inverts, in0, err, dup, store, recv>>

Next == AppendOp \/ InvertOp \/ UnionBegin \/ UnionStep

\* the caller builds a collection and calls Union
Spec == Init /\ [][Next]_vars

NextBuild == AppendOp \/ InvertOp

\* the caller only builds a collection
SpecBuild == Init /\ [][NextBuild]_vars

NextCalls == AppendOp \/ InvertOp \/ InflateOp \/ SliceOp \/ VSliceOp

\* the caller builds a collection and makes the calls that take an index
SpecCalls == Init /\ [][NextCalls]_vars

(***************************************************************************)
(* Two collections.  A *Shapes holds pointers to Shape structs, and a      *)
(* Shape holds a slice of an array of points: a write made through one     *)
(* collection shows in the other where the two hold the same Shape or the  *)
(* same array.  store keeps, for every shape of p and of dup, the address  *)
(* of its struct and that of its array; a new address is one above all     *)
(* those in use.                                                           *)
(***************************************************************************)
MaxDup == 2

MaxEdits == 2

\* the rings handed to Append once there are two collections
DupRings == { Sq(2, 2, 6, 6), <<Pt(0, 0), Pt(0, 2), Pt(2, 2), Pt(2, 0)>>, <<>> }

\* the first address not in use
Brk(st) ==
    1 + SetMax({0} \cup {st.p[k].shape : k \in 1..Len(st.p)}
                   \cup {st.p[k].ring : k \in 1..Len(st.p)}
                   \cup {st.dup[k].shape : k \in 1..Len(st.dup)}
                   \cup {st.dup[k].ring : k \in 1..Len(st.dup)})

\* where a shape that Rationalize has built is kept: a new Shape, and the
\* new array its points were copied to
Built(brk) == [shape |-> brk, ring |-> brk + 1]

\* A faulty variant of ShapeDuplicate: PS is s.PS, the slice of the original.
ShapeDuplicateSlice(at, brk) == [shape |-> brk, ring |-> at.ring]

\* (s *Shape) Duplicate(): where the copy of the shape kept at at is kept
ShapeDuplicate(at, brk) == [shape |-> brk, ring |-> brk + 1]

\* (p *Shapes) Duplicate(): where the copies of the shapes kept at ats are kept
DuplicateStore(ats, brk) ==
    [k \in 1..Len(ats) |-> ShapeDuplicate(ats[k], brk + 2 * (k - 1))]

\* The collection Y, whose shapes are kept at ys, after a write to the shape
\* kept at at that left that shape as s: Y sees all of s where it holds the
\* same Shape, and the points of s where it holds another Shape with the
\* same array.
Through(Y, ys, at, s) ==
    [Y EXCEPT !.P = [l \in 1..Len(Y.P) |->
                        IF ys[l].shape = at.shape THEN s
                        ELSE IF ys[l].ring = at.ring THEN [Y.P[l] EXCEPT !.PS = s.PS]
                        ELSE Y.P[l]]]

\* the shapes of P in the order Reorder gives them, by their place in P
Order(P) ==
    SortShapes([k \in 1..Len(P) |->
                   [MinX |-> P[k].MinX, MinY |-> P[k].MinY,
                    MaxX |-> P[k].MaxX, MaxY |-> P[k].MaxY, k |-> k]], Len(P))

\* The collection Y after X.Union() has made the first pass of its loops,
\* when that pass is combine(0, 1): combine dissolves X.P[1] in place and,
\* if it goes on to crossings, crossings dissolves X.P[0] in place.  What
\* the later passes write to the arrays X had is not followed.
UnionThrough(X, xs, Y, ys) ==
    LET pass(n, m) ==
            LET wrote(dm) ==
                    LET Y1 == Through(Y, ys, xs[m], dm.recv)
                    IN  IF dm.err \/ dm.poly.Hole \/ BoxesApart(X.P[n], dm.poly) THEN Y1
                        ELSE Through(Y1, ys, xs[n], dissolve(X.P[n]).recv)
            IN  IF X.P[m].Hole THEN Y ELSE wrote(dissolve(X.P[m]))
        ordered(o) == pass(o[1].k, o[2].k)
    IN  IF X.nil \/ Len(X.P) < 2 THEN Y ELSE ordered(Order(X.P))

\* the collection named t, and the name of the other one
Col(t) == IF t = "p" THEN p ELSE dup

Other(t) == IF t = "p" THEN "dup" ELSE "p"

\* a call on the collection named t has left it as X and the other as Y
Edited(t, X, Y) ==
    /\ p' = IF t = "p" THEN X ELSE Y
    /\ dup' = IF t = "p" THEN Y ELSE X
    /\ recv' = t

\* dup := p.Duplicate(), whose loop reads p.P and so panics on a p that is
\* nil.  The shapes of p are kept where Append left them, each in a Shape
\* and an array of its own.
DuplicateOp ==
    /\ pc = "build"
    /\ Len(p.P) <= MaxDup
    /\ IF p.nil
       THEN /\ pc' = "panic"
            /\ err' = NilDereference
            /\ op' = Call("Duplicate", <<>>, 0, TRUE, p)
            /\ UNCHANGED <<dup, store>>
       ELSE /\ pc' = "dup"
            /\ err' = NoError
            /\ op' = Call("Duplicate", <<>>, 0, FALSE, p)
            /\ dup' = Duplicate(p)
            /\ LET ps == [k \in 1..Len(p.P) |-> Built(2 * k - 1)]
               IN  store' = [p |-> ps, dup |-> DuplicateStore(ps, 2 * Len(p.P) + 1)]
    /\ recv' = "p"
    /\ UNCHANGED <<p, i, j, ref, holed, steps, inverts, in0, out>>

\* what every call made once there are two collections leaves alone
DupFrame ==
    /\ steps' = steps + 1
    /\ UNCHANGED <<i, j, ref, holed, inverts, in0, out>>

\* t, err = t.Append(pts...) for t one of the two collections
DupAppend ==
    /\ pc = "dup"
    /\ steps < MaxEdits
    /\ \E t \in {"p", "dup"}, pts \in DupRings :
          /\ Len(Col(t).P) < MaxShapes
          /\ LET r == ShapesAppend(Col(t), pts)
             IN  /\ Edited(t, r.p, Col(Other(t)))
                 /\ store' = IF r.err THEN store
                             ELSE [store EXCEPT ![t] = Append(@, Built(Brk(store)))]
                 /\ op' = Call("Append", pts, 0, r.err, Col(t))
                 /\ err' = RationalizeError(pts)
    /\ pc' = pc
    /\ DupFrame

\* err = t.Invert(idx): the Shape has its Hole set and its array reversed
DupInvert ==
    /\ pc = "dup"
    /\ steps < MaxEdits
    /\ \E t \in {"p", "dup"} : \E idx \in (-1)..Len(Col(t).P) :
          LET r == Invert(Col(t), idx)
          IN  /\ Edited(t, r.p,
                        IF r.err THEN Col(Other(t))
                        ELSE Through(Col(Other(t)), store[Other(t)],
                                     store[t][idx + 1], At(r.p.P, idx)))
              /\ op' = Call("Invert", <<>>, idx, r.err, Col(t))
              /\ err' = InvertError(Col(t), idx)
    /\ pc' = pc
    /\ UNCHANGED store
    /\ DupFrame

\* t.P[k].PS[1] = Point{1, 1}: the caller writes a point of a ring
DupWrite ==
    /\ pc = "dup"
    /\ steps < MaxEdits
    /\ \E t \in {"p", "dup"} : \E k \in 1..Len(Col(t).P) :
          LET s == [Col(t).P[k] EXCEPT !.PS[2] = Pt(1, 1)]
          IN  /\ Edited(t, [Col(t) EXCEPT !.P[k] = s],
                        Through(Col(Other(t)), store[Other(t)], store[t][k], s))
              /\ op' = Call("Write", <<Pt(1, 1)>>, k - 1, FALSE, Col(t))
    /\ err' = NoError
    /\ pc' = pc
    /\ UNCHANGED store
    /\ DupFrame

\* t.Reorder(): the pointers of t.P change places
DupReorder ==
    /\ pc = "dup"
    /\ steps < MaxEdits
    /\ \E t \in {"p", "dup"} :
          /\ Edited(t, Reorder(Col(t)), Col(Other(t)))
          /\ store' = [store EXCEPT ![t] =
                          [k \in 1..Len(@) |-> @[Order(Col(t).P)[k].k]]]
          /\ op' = Call("Reorder", <<>>, 0, FALSE, Col(t))
    /\ err' = NoError
    /\ pc' = pc
    /\ DupFrame

\* t.Union(), after which the caller makes no further call
DupUnion ==
    /\ pc = "dup"
    /\ steps < MaxEdits
    /\ \E t \in {"p", "dup"} :
          LET r == UnionFn(Col(t), MaxFuel)
          IN  /\ Edited(t, r.p, UnionThrough(Col(t), store[t],
                                             Col(Other(t)), store[Other(t)]))
              /\ pc' = IF r.st = "ok" THEN "done" ELSE r.st
              /\ op' = Call("Union", <<>>, 0, FALSE, Col(t))
    /\ err' = NoError
    /\ UNCHANGED store
    /\ DupFrame

\* t = t.Add(s) with s the other collection, after which the caller makes no
\* further call
DupAdd ==
    /\ pc = "dup"
    /\ steps < MaxEdits
    /\ \E t \in {"p", "dup"} :
          LET r == Add(Col(t), Col(Other(t)))
          IN  /\ Edited(t, r.p, Col(Other(t)))
              /\ pc' = IF r.st = "ok" THEN "done" ELSE r.st
              /\ op' = Call("Add", <<>>, 0, FALSE, Col(t))
    /\ err' = NoError
    /\ UNCHANGED store
    /\ DupFrame

NextDup ==
    \/ AppendOp \/ InvertOp \/ DuplicateOp
    \/ DupAppend \/ DupInvert \/ DupWrite \/ DupReorder \/ DupUnion \/ DupAdd

\* the caller builds a collection, duplicates it and goes on with the two
SpecDup == Init /\ [][NextDup]_vars

(***************************************************************************)
(* The functions of the package called on their own, on points with whole  *)
(* coordinates from 0 to FnGrid.                                           *)
(***************************************************************************)
FnGrid == 3

FnPoints == {Pt(x, y) : x, y \in 0..FnGrid}

\* the calls to be made: the name of a function and its arguments
IntersectCalls ==
    {Call("intersect", <<a, b, c, e>>, 0, FALSE, NilShapes) :
        a, b, c \in FnPoints, e \in {Pt(x, y) : x \in 0..(FnGrid + 1), y \in 0..FnGrid}}

\* the rings the shapes of the calls are built from: every triangle on
\* FnPoints and the rings of the catalogue that make a shape
FnRings ==
    {t \in {<<a, b, c>> : a, b, c \in FnPoints} :
        (t[2].X - t[1].X) * (t[3].Y - t[1].Y) # (t[2].Y - t[1].Y) * (t[3].X - t[1].X)}
    \cup {r \in Rings : Len(r) >= 3}

\* s, _ := Builder(ring): the collections of one shape
FnShapes == {ShapesAppend(NilShapes, ring).p : ring \in FnRings}

\* a.Inside(s.P[0]) for the points a of the grid
InsideCalls ==
    {Call("Inside", <<a>>, 0, FALSE, s) :
        a \in {Pt(x, y) : x, y \in 0..GridMax}, s \in FnShapes}

\* s, _ := Builder(r1); s.Builder(r2): the collections of two shapes of the
\* catalogue
FnPairs ==
    {ShapesAppend(ShapesAppend(NilShapes, r1).p, r2).p :
        r1, r2 \in {r \in Rings : Len(r) >= 3}}

\* s.P[0].Inside(s.P[1])
ShapeInsideCalls == {Call("Shape.Inside", <<>>, 0, FALSE, s) : s \in FnPairs}

\* hits, p1, p2 := crossings(s.P[0], s.P[1]), followed as in combine and
\* trimHole by outlines(p1, p2, hits) when there are two hits or more
CrossingsCalls == {Call("crossings", <<>>, 0, FALSE, s) : s \in FnPairs}

FnCalls == IntersectCalls \cup InsideCalls \cup ShapeInsideCalls \cup CrossingsCalls

\* a call is about to be made
InitFn ==
    /\ op \in FnCalls
    /\ pc = "call"
    /\ out = <<>>
    /\ p = NilShapes
    /\ i = 0
    /\ j = 0
    /\ ref = NilShapes
    /\ holed = NilShapes
    /\ steps = 0
    /\ inverts = 0
    /\ in0 = NilShapes
    /\ err = NoError
    /\ dup = NilShapes
    /\ store = [p |-> <<>>, dup |-> <<>>]
    /\ recv = "p"

\* the call has returned res
Called(res) ==
    /\ out' = res
    /\ pc' = "returned"
    /\ UNCHANGED <<p, op, i, j, ref, holed, steps, inverts, in0, err, dup, store, recv>>

\* What the test of at against the shared box (the last statement of the
\* crossing case of intersect) can come to, r being what intersect returns
\* when at is computed without rounding.  When a quotient on the way to at is
\* no float64, at is rounded and may fall to either side of the point where
\* the lines meet; the test compares at with the box without tolerance,
\* unless the box is flat in that direction or at was moved onto a or b.
boxTest(a, b, c, d, r) ==
    LET q   == crossPoint(a, b, c, d)
        lo  == Pt(max(BB(a, b).ll.X, BB(c, d).ll.X), max(BB(a, b).ll.Y, BB(c, d).ll.Y))
        hi  == Pt(min(BB(a, b).tr.X, BB(c, d).tr.X), min(BB(a, b).tr.Y, BB(c, d).tr.Y))
        onX == lo.X # hi.X /\ (q.xn = lo.X * q.xd \/ q.xn = hi.X * q.xd)
        onY == lo.Y # hi.Y /\ (q.yn = lo.Y * q.yd \/ q.yn = hi.Y * q.yd)
        moved == \E e \in {a, b} : q.xn = e.X * q.xd /\ q.yn = e.Y * q.yd
    IN  IF r.hit /\ ~r.exact /\ ~moved /\ (onX \/ onY) THEN {TRUE, FALSE}
        ELSE {r.hit}

\* hit, left, hold, at := intersect(a, b, c, d)
IntersectOp ==
    /\ pc = "call"
    /\ op.name = "intersect"
    /\ LET returned(r) ==
               \E hit \in boxTest(op.pts[1], op.pts[2], op.pts[3], op.pts[4], r) :
                   Called([at |-> r.at, exact |-> r.exact, grid |-> r.grid,
                           hit |-> hit, hold |-> r.hold, left |-> r.left])
       IN  returned(intersect(op.pts[1], op.pts[2], op.pts[3], op.pts[4]))

\* inside := a.Inside(s.P[0])
InsideOp ==
    /\ pc = "call"
    /\ op.name = "Inside"
    /\ LET returned(r) == [in |-> r.in, st |-> r.st]
       IN  Called(returned(Inside(op.pts[1], op.before.P[1])))

\* aInB, bInA := s.P[0].Inside(s.P[1])
ShapeInsideOp ==
    /\ pc = "call"
    /\ op.name = "Shape.Inside"
    /\ LET returned(r) == [aInB |-> r.aInB, bInA |-> r.bInA, st |-> r.st]
       IN  Called(returned(ShapeInside(op.before.P[1], op.before.P[2])))

\* hits, p1, p2 := crossings(s.P[0], s.P[1]) and, with two hits or more,
\* polys := outlines(p1, p2, hits)
CrossingsOp ==
    /\ pc = "call"
    /\ op.name = "crossings"
    /\ LET outlined(c, o) ==
               Called([hits |-> c.hits, n1 |-> c.n1, n2 |-> c.n2, polys |-> o.P,
                       st |-> Then(c.st, o.st)])
           crossed(c) ==
               outlined(c, IF c.st = "ok" /\ Cardinality(c.hits) >= 2
                           THEN outlines(c.n1, c.n2, c.hits)
                           ELSE [st |-> "ok", P |-> <<>>])
       IN  crossed(crossings(op.before.P[1], op.before.P[2]))

NextFn == IntersectOp \/ InsideOp \/ ShapeInsideOp \/ CrossingsOp

\* a function of the package is called once
SpecFn == InitFn /\ [][NextFn]_vars

(***************************************************************************)
(* What the claims speak of, defined without the package's own geometry:   *)
(* the even-odd rule on sample points off every line the rings can run     *)
(* along, and the signed area.  A sample point is kept with its            *)
(* coordinates multiplied by 4.                                            *)
(***************************************************************************)
Samples ==
    UNION { { Pt(4 * kx + 2, 4 * ky + 1), Pt(4 * kx + 3, 4 * ky + 2),
              Pt(4 * kx + 2, 4 * ky + 3), Pt(4 * kx + 1, 4 * ky + 2) } :
            kx \in 0..(GridMax - 1), ky \in 0..(GridMax - 1) }

\* the horizontal ray from q to the right crosses the edge from a to b
RayCrosses(q, a, b) ==
    /\ (4 * a.Y <= q.Y) # (4 * b.Y <= q.Y)
    /\ IF b.Y > a.Y
       THEN 4 * a.X * (b.Y - a.Y) + (q.Y - 4 * a.Y) * (b.X - a.X) > q.X * (b.Y - a.Y)
       ELSE 4 * a.X * (b.Y - a.Y) + (q.Y - 4 * a.Y) * (b.X - a.X) < q.X * (b.Y - a.Y)

\* q lies on the line through a and b, between them
OnEdge(q, a, b) ==
    /\ (4 * b.X - 4 * a.X) * (q.Y - 4 * a.Y) = (4 * b.Y - 4 * a.Y) * (q.X - 4 * a.X)
    /\ q.X >= 4 * min(a.X, b.X)
    /\ q.X <= 4 * max(a.X, b.X)
    /\ q.Y >= 4 * min(a.Y, b.Y)
    /\ q.Y <= 4 * max(a.Y, b.Y)

Succ(ring, k) == ring[(k % Len(ring)) + 1]

\* q is in the interior of the ring, by the even-odd rule
InRing(q, ring) ==
    Cardinality({k \in 1..Len(ring) : RayCrosses(q, ring[k], Succ(ring, k))}) % 2 = 1

OnRing(q, ring) == \E k \in 1..Len(ring) : OnEdge(q, ring[k], Succ(ring, k))

\* q is on no boundary of the shapes P
OffBoundaries(q, P) == \A k \in 1..Len(P) : ~OnRing(q, P[k].PS)

\* q is inside at least one of the shapes P
InSome(q, P) == \E k \in 1..Len(P) : InRing(q, P[k].PS)

\* twice the signed area of the ring: positive when counter-clockwise
RECURSIVE Shoelace(_, _)
Shoelace(ring, k) ==
    IF k = 0 THEN 0
    ELSE ring[k].X * Succ(ring, k).Y - Succ(ring, k).X * ring[k].Y
         + Shoelace(ring, k - 1)

SignedArea2(ring) == Shoelace(ring, Len(ring))

\* the first point of ring is its leftmost, and of the leftmost its lowest
LeftmostFirst(ring) ==
    \A k \in 1..Len(ring) :
        \/ ring[1].X < ring[k].X
        \/ ring[1].X = ring[k].X /\ ring[1].Y <= ring[k].Y

\* the first point of ring is its lowest, and of the lowest its leftmost
LowestFirst(ring) ==
    \A k \in 1..Len(ring) :
        \/ ring[1].Y < ring[k].Y
        \/ ring[1].Y = ring[k].Y /\ ring[1].X <= ring[k].X

NoHoles(P) == \A k \in 1..Len(P) : ~P[k].Hole

\* Union has returned
Returned == pc = "done" /\ op.name \in {"Union", "UnionStep"}

(***************************************************************************)
(* Append, Rationalize and Invert                                          *)
(***************************************************************************)
\* the shape the last Append added
Appended == p.P[Len(p.P)]

AppendFailed == op.name = "Append" /\ op.err

AppendDone == op.name = "Append" /\ ~op.err

InvertDone == op.name = "Invert" /\ ~op.err

\* ring is pts read cyclically from one of its points
IsRotation(ring, pts) ==
    \E r \in 0..(Len(pts) - 1) :
        ring = SubSeq(pts, r + 1, Len(pts)) \o SubSeq(pts, 1, r)

\* C6: an Append of fewer than three points reports an error and leaves the
\* receiver as it was: no shape is added and the counter behind the Index
\* labels does not advance.
C6_ShortAppendRejected ==
    (op.name = "Append" /\ Len(op.pts) < 3) => (op.err /\ p = op.before)

\* a short Append has been made on a collection that holds shapes already
C6_Witness ==
    AppendFailed /\ Len(op.pts) < 3 /\ Len(op.pts) > 0 /\ Len(p.P) > 0

\* C7: a successful Append adds exactly one shape, as the last element; its PS
\* is the points given read cyclically from the leftmost (minimum X, then
\* minimum Y) of them, and the shapes held before are unchanged.
C7_AppendAddsRotation ==
    AppendDone =>
        /\ Len(p.P) = Len(op.before.P) + 1
        /\ SubSeq(p.P, 1, Len(p.P) - 1) = op.before.P
        /\ IsRotation(Appended.PS, op.pts)
        /\ LeftmostFirst(Appended.PS)

\* an Append has rotated the points it was given, next to an earlier shape
C7_Witness ==
    /\ AppendDone
    /\ Len(p.P) > 1
    /\ Appended.PS # op.pts
    /\ ~LowestFirst(Appended.PS)

\* C8 as stated: the first point of every shape's PS is its lowest (minimum
\* Y), and of the lowest its leftmost, after Append and after Union.
C8_LowestThenLeftmost ==
    (pc = "build" \/ Returned) => \A k \in 1..Len(p.P) : LowestFirst(p.P[k].PS)

\* C8 as the code has it: the first point of every shape's PS is its leftmost
\* (minimum X), and of the leftmost its lowest, after Append, after Invert and
\* after Union.
C8_LeftmostThenLowest ==
    (pc = "build" \/ Returned) => \A k \in 1..Len(p.P) : LeftmostFirst(p.P[k].PS)

\* Union has merged shapes into one whose leftmost point is not its lowest
C8_Witness ==
    /\ Returned
    /\ op.name = "UnionStep"
    /\ Len(p.P) < Len(in0.P)
    /\ \E k \in 1..Len(p.P) :
          /\ ~LowestFirst(p.P[k].PS)
          /\ \A m \in 1..Len(in0.P) : in0.P[m].PS # p.P[k].PS

\* the cross product of the edge into ring[1] with the edge out of it
TurnAtFirst(ring) ==
    (ring[1].X - ring[Len(ring)].X) * (ring[2].Y - ring[1].Y)
    - (ring[1].Y - ring[Len(ring)].Y) * (ring[2].X - ring[1].X)

\* C9: of a simple polygon given to Append, Hole is true exactly when the ring
\* runs clockwise: the turn at PS[0] has the sign of the ring's signed area,
\* and Hole is true exactly when that area is negative.
C9_HoleIsClockwise ==
    AppendDone =>
        /\ Appended.Hole <=> SignedArea2(op.pts) < 0
        /\ TurnAtFirst(Appended.PS) < 0 <=> SignedArea2(Appended.PS) < 0
        /\ TurnAtFirst(Appended.PS) > 0 <=> SignedArea2(Appended.PS) > 0

\* a clockwise ring has been appended after a counter-clockwise one that was
\* not given from its leftmost point
C9_Witness ==
    /\ AppendDone
    /\ Appended.Hole
    /\ SignedArea2(op.pts) < 0
    /\ Len(p.P) = 2
    /\ ~p.P[1].Hole
    /\ SignedArea2(p.P[1].PS) > 0
    /\ ~LowestFirst(p.P[1].PS)

\* C10: Invert(i) with a valid index flips Hole of shape i, keeps PS[0],
\* reverses the rest of PS, and leaves the bounding box, the label and every
\* other shape alone; a second Invert(i) restores the collection.
C10_InvertReverses ==
    InvertDone =>
        LET s0 == At(op.before.P, op.idx)
            s1 == At(p.P, op.idx)
        IN  /\ s1.Hole = ~s0.Hole
            /\ Head(s1.PS) = Head(s0.PS)
            /\ Tail(s1.PS) = Reverse(Tail(s0.PS))
            /\ <<s1.MinX, s1.MinY, s1.MaxX, s1.MaxY>> = <<s0.MinX, s0.MinY, s0.MaxX, s0.MaxY>>
            /\ s1.Index = s0.Index
            /\ Len(p.P) = Len(op.before.P)
            /\ \A k \in 1..Len(p.P) : k # op.idx + 1 => p.P[k] = op.before.P[k]
            /\ p.index = op.before.index
            /\ ~Invert(p, op.idx).err
            /\ Invert(p, op.idx).p = op.before

\* the second of three shapes has been inverted, and its ring has changed
C10_Witness ==
    /\ InvertDone
    /\ op.idx = 1
    /\ Len(p.P) = 3
    /\ At(p.P, 1).PS # At(op.before.P, 1).PS

(***************************************************************************)
(* Union                                                                   *)
(***************************************************************************)
\* q is off every boundary of the shapes given to Union and of those it left
Clear(q) == OffBoundaries(q, in0.P) /\ OffBoundaries(q, p.P)

\* C1: of simple non-hole polygons, Union preserves the region covered: a
\* point off every boundary is inside at least one of the shapes given to
\* Union exactly when it is inside at least one of the shapes Union leaves.
C1_RegionPreserved ==
    (Returned /\ NoHoles(in0.P)) =>
        \A q \in Samples : Clear(q) => (InSome(q, in0.P) <=> InSome(q, p.P))

\* q is in the interior of shape k of P: inside its ring and inside no hole
InInterior(q, P, k) ==
    /\ InRing(q, P[k].PS)
    /\ \A h \in 1..Len(P) : P[h].Hole => ~InRing(q, P[h].PS)

\* C2: after Union has returned, no two distinct shapes of the collection
\* have a point in the interior of both.
C2_DisjointInteriors ==
    Returned =>
        \A k \in 1..Len(p.P) : \A l \in (k + 1)..Len(p.P) :
            (~p.P[k].Hole /\ ~p.P[l].Hole) =>
                \A q \in Samples : ~(InInterior(q, p.P, k) /\ InInterior(q, p.P, l))

\* C3: Union terminates: it never comes to a pass of its loop that leaves the
\* indices and both collections as it found them, nor to a walk along an
\* outline that has no crossing to turn at.
C3_UnionTerminates == pc \notin {"stalled", "diverged"}

\* the edges a-b and c-d run along one line and have more than a point in common
Overlapping(a, b, c, d) ==
    LET ux == b.X - a.X
        uy == b.Y - a.Y
        tc == (c.X - a.X) * ux + (c.Y - a.Y) * uy
        td == (d.X - a.X) * ux + (d.Y - a.Y) * uy
    IN  /\ ux * (c.Y - a.Y) = uy * (c.X - a.X)
        /\ ux * (d.Y - a.Y) = uy * (d.X - a.X)
        /\ max(min(tc, td), 0) < min(max(tc, td), ux * ux + uy * uy)

\* the rings A and B share a stretch of boundary of positive length
SharesStretch(A, B) ==
    \E k \in 1..Len(A) : \E l \in 1..Len(B) :
        Overlapping(A[k], Succ(A, k), B[l], Succ(B, l))

\* each of the rings A and B has a part outside the other, and they overlap or
\* share a stretch of boundary
PartlyOverlap(A, B) ==
    /\ \E q \in Samples : InRing(q, A) /\ ~InRing(q, B)
    /\ \E q \in Samples : InRing(q, B) /\ ~InRing(q, A)
    /\ \/ \E q \in Samples : InRing(q, A) /\ InRing(q, B)
       \/ SharesStretch(A, B)

\* ring[k] lies on the line through its two neighbours
Collinear(ring, k) ==
    LET a == ring[((k + Len(ring) - 2) % Len(ring)) + 1]
        b == ring[k]
        c == Succ(ring, k)
    IN  (b.X - a.X) * (c.Y - b.Y) = (b.Y - a.Y) * (c.X - b.X)

TwoShapesGiven == Len(in0.P) = 2 /\ NoHoles(in0.P)

\* C4: given two non-hole shapes that partly overlap or share a stretch of
\* boundary, Union leaves exactly one shape, with Hole false, whose PS is the
\* outline of the two together: it encloses what they cover and nothing else,
\* runs counter-clockwise from its leftmost-then-lowest point and has no
\* point collinear with its neighbours.
C4_OneOutline ==
    (Returned /\ TwoShapesGiven /\ PartlyOverlap(in0.P[1].PS, in0.P[2].PS)) =>
        /\ Len(p.P) = 1
        /\ ~p.P[1].Hole
        /\ SignedArea2(p.P[1].PS) > 0
        /\ LeftmostFirst(p.P[1].PS)
        /\ \A k \in 1..Len(p.P[1].PS) : ~Collinear(p.P[1].PS, k)
        /\ \A q \in Samples : Clear(q) => (InSome(q, in0.P) <=> InRing(q, p.P[1].PS))

\* the ring B lies within the ring A, and A is the larger
Within(B, A) ==
    /\ \A q \in Samples : InRing(q, B) => InRing(q, A)
    /\ \E q \in Samples : InRing(q, A) /\ ~InRing(q, B)

\* the points of ring from the k-th on that are not collinear with their
\* neighbours
RECURSIVE Corners(_, _)
Corners(ring, k) ==
    IF k > Len(ring) THEN <<>>
    ELSE (IF Collinear(ring, k) THEN <<>> ELSE <<ring[k]>>) \o Corners(ring, k + 1)

\* C5: given two non-hole shapes of which one lies within the other, in either
\* order, Union leaves exactly one shape and its PS is the ring of the one
\* that contains the other: its PS as it was given, or that with the points
\* collinear with their neighbours left out.
C5_ContainerRemains ==
    (Returned /\ TwoShapesGiven) =>
        \A a \in 1..2 :
            Within(in0.P[3 - a].PS, in0.P[a].PS) =>
                /\ Len(p.P) = 1
                /\ p.P[1].PS \in {in0.P[a].PS, Corners(in0.P[a].PS, 1)}

(***************************************************************************)
(* The calls that take the index of a shape.                               *)
(***************************************************************************)
IndexCalls == {"Invert", "Inflate", "Slice", "VSlice"}

\* the last call took an index outside the shapes of a collection
OutOfRange ==
    /\ op.name \in IndexCalls
    /\ ~op.before.nil
    /\ op.idx < 0 \/ op.idx >= Len(op.before.P)

\* the error e names the values vs, each with a verb of its own
Names(e, vs) ==
    \E f \in [1..Len(vs) -> 1..Len(e.args)] :
        /\ \A k, l \in 1..Len(vs) : k # l => f[k] # f[l]
        /\ \A k \in 1..Len(vs) : e.args[f[k]] = vs[k]

C12_DuplicateIndependent ==
    [][/\ (op'.name = "Duplicate" /\ ~op'.err) => (dup'.P = p.P /\ p' = p)
       /\ (pc = "dup" /\ recv' = "dup") => p' = p
       /\ (pc = "dup" /\ recv' = "p") => dup' = dup]_vars

\* the copy of a collection of two shapes has had a point of a ring
\* overwritten and has then been merged into one shape by Union
C12_Witness ==
    /\ pc = "done"
    /\ recv = "dup"
    /\ op.name = "Union"
    /\ steps = 2
    /\ Len(op.before.P) = 2
    /\ \E k \in 1..2 : op.before.P[k].PS[2] = Pt(1, 1)
    /\ Len(dup.P) = 1
    /\ Len(p.P) = 2
    /\ \A k \in 1..2 : p.P[k].PS[2] # Pt(1, 1)

\* the number of shapes of P whose ring is ring, from whichever point it is
\* listed
Count(P, ring) == Cardinality({k \in 1..Len(P) : IsRotation(P[k].PS, ring)})

\* C13: t.Add(s) leaves in t the shapes t had, each as it was, and one more
\* shape for every shape of s, with the ring of that shape: t has grown by
\* the number of shapes of s, every ring is in t as often as it was in t and
\* s together, and s is as it was.
C13_AddAppendsEach ==
    [][(pc = "dup" /\ op'.name = "Add") =>
          LET t == IF recv' = "p" THEN p ELSE dup
              s == IF recv' = "p" THEN dup ELSE p
              T == IF recv' = "p" THEN p' ELSE dup'
              S == IF recv' = "p" THEN dup' ELSE p'
          IN  /\ pc' = "done"
              /\ Len(T.P) = Len(t.P) + Len(s.P)
              /\ \A k \in 1..Len(T.P) :
                    Count(T.P, T.P[k].PS) = Count(t.P, T.P[k].PS) + Count(s.P, T.P[k].PS)
              /\ \A k \in 1..Len(t.P) : \E l \in 1..Len(T.P) : T.P[l] = t.P[k]
              /\ S = s]_vars

\* p.Add(dup) has been called with two shapes in each, one of those of dup
\* inverted since dup was copied from p
C13_Witness ==
    /\ pc = "done"
    /\ op.name = "Add"
    /\ recv = "p"
    /\ Len(dup.P) = 2
    /\ Len(op.before.P) = 2
    /\ Len(p.P) = 4
    /\ \E k \in 1..2 :
          /\ dup.P[k].Hole
          /\ \A l \in 1..2 : ~op.before.P[l].Hole /\ dup.P[k].PS # op.before.P[l].PS

\* the shape a may stand right before the shape b in a reordered collection
InOrder(a, b) ==
    \/ a.MinX < b.MinX
    \/ a.MinX = b.MinX /\ a.MinY < b.MinY
    \/ a.MinX = b.MinX /\ a.MinY = b.MinY /\ a.MaxX > b.MaxX
    \/ a.MinX = b.MinX /\ a.MinY = b.MinY /\ a.MaxX = b.MaxX /\ a.MaxY >= b.MaxY

\* P holds the shapes of Q, each as often as Q does
Permutes(P, Q) ==
    /\ Len(P) = Len(Q)
    /\ \A k \in 1..Len(Q) :
          Cardinality({l \in 1..Len(P) : P[l] = Q[k]})
              = Cardinality({l \in 1..Len(Q) : Q[l] = Q[k]})

\* C14: Reorder leaves the shapes the collection had, none added, lost or
\* changed, in an order where each shape and the next have MinX ascending, or
\* MinX equal and MinY ascending, or those equal and MaxX descending, or
\* those three equal and MaxY not ascending.
C14_ReorderSorts ==
    op.name = "Reorder" =>
        /\ Permutes(Col(recv).P, op.before.P)
        /\ \A k \in 1..(Len(Col(recv).P) - 1) :
              InOrder(Col(recv).P[k], Col(recv).P[k + 1])
        /\ Col(recv).index = op.before.index

\* Reorder has moved the last of three shapes to the middle, behind a shape
\* with the same lower-left corner and a larger MaxX
C14_Witness ==
    /\ op.name = "Reorder"
    /\ Len(op.before.P) = 3
    /\ Col(recv).P[2] = op.before.P[3]
    /\ Col(recv).P[3] = op.before.P[2]
    /\ Col(recv).P[1].MinX = Col(recv).P[2].MinX
    /\ Col(recv).P[1].MinY = Col(recv).P[2].MinY
    /\ Col(recv).P[1].MaxX > Col(recv).P[2].MaxX

(***************************************************************************)
(* intersect.                                                              *)
(***************************************************************************)
\* intersect was called with the same segment, of two distinct points, twice
SameSegmentTwice ==
    /\ pc = "returned"
    /\ op.name = "intersect"
    /\ op.pts[1] # op.pts[2]
    /\ op.pts[3] = op.pts[1]
    /\ op.pts[4] = op.pts[2]

\* C15 as the specification states it: for distinct points a and b,
\* intersect(a, b, a, b) returns hit = true with at one of a and b.
C15_SameSegmentHits ==
    SameSegmentTwice => (out.hit /\ out.at \in {op.pts[1], op.pts[2]})

\* C15, amended: for distinct points a and b, intersect(a, b, a, b) returns
\* hit = false, the two segments starting from the same place, and at the
\* zero Point; intersect(a, b, b, a), the same segment run the other way,
\* returns hit = true with at = b.
C15_SharedStartMisses ==
    /\ SameSegmentTwice => (~out.hit /\ out.at = ZeroPt)
    /\ (/\ pc = "returned"
        /\ op.name = "intersect"
        /\ op.pts[1] # op.pts[2]
        /\ op.pts[3] = op.pts[2]
        /\ op.pts[4] = op.pts[1]) => (out.hit /\ out.at = op.pts[2])

\* intersect was called with a slanted segment twice
C15_Witness ==
    /\ SameSegmentTwice
    /\ op.pts[1] = Pt(1, 0)
    /\ op.pts[2] = Pt(3, 2)
    /\ ~out.hit

(***************************************************************************)
(* Containment of one shape in another.                                    *)
(***************************************************************************)
\* the region of the ring A is contained in that of the ring B
RegionIn(A, B) == \A q \in Samples : InRing(q, A) => InRing(q, B)

\* a.Inside(b) has returned
ShapeInsideDone ==
    /\ pc = "returned"
    /\ op.name = "Shape.Inside"
    /\ out.st = "ok"

\* C16: for simple polygons a and b, a.Inside(b) returns aInB exactly when
\* the region of a is contained in that of b, and bInA exactly when the
\* region of b is contained in that of a; so it returns (true, true) only for
\* two shapes of the same region.
C16_InsideIsContainment ==
    ShapeInsideDone =>
        /\ out.aInB <=> RegionIn(op.before.P[1].PS, op.before.P[2].PS)
        /\ out.bInA <=> RegionIn(op.before.P[2].PS, op.before.P[1].PS)

(***************************************************************************)
(* Point in polygon.                                                       *)
(***************************************************************************)
\* a.Inside(s) has returned, for a point a off the boundary of s
InsideOffBoundary ==
    /\ pc = "returned"
    /\ op.name = "Inside"
    /\ out.st = "ok"
    /\ ~OnRing(Pt(4 * op.pts[1].X, 4 * op.pts[1].Y), op.before.P[1].PS)

\* C17: for a point off the boundary of a simple polygon, Inside returns true
\* exactly when the even-odd rule puts the point in the interior, also when
\* the ray to the right passes through a vertex of the polygon.
C17_InsideIsEvenOdd ==
    InsideOffBoundary =>
        (out.in <=> InRing(Pt(4 * op.pts[1].X, 4 * op.pts[1].Y), op.before.P[1].PS))

(***************************************************************************)
(* The passes of Union's inner loop.                                       *)
(***************************************************************************)
\* a pass through the body of Union's inner loop has returned
StepDone ==
    /\ op.name = "UnionStep"
    /\ out.st = "ok"

\* C18: every pass through the body of Union's inner loop, a call of combine
\* or of trimHole, leaves fewer shapes in the collection or returns an index
\* greater than the j it was called with.
C18_StepMakesProgress ==
    StepDone => \/ Len(out.p.P) < Len(op.before.P)
                \/ out.j > op.idx

(***************************************************************************)
(* combine.                                                                *)
(***************************************************************************)
\* the pass was a call combine(out.i, op.idx), and it returned
CombineDone ==
    /\ StepDone
    /\ ~op.before.P[op.idx + 1].Hole

\* the regions of the shapes P, in the order of P
Regions(P) == [k \in 1..Len(P) |-> {q \in Samples : InRing(q, P[k].PS)}]

\* combine has turned the shapes P into the shapes Q: the shape at index k is
\* gone and the others are in place
Deleted(P, Q, k) == Regions(Q) = RemoveAt(Regions(P), k)

\* the boxes of the shapes a and b do not overlap
Apart(a, b) ==
    \/ a.MinX > b.MaxX
    \/ a.MaxX < b.MinX
    \/ a.MinY > b.MaxY
    \/ a.MaxY < b.MinY

\* C19: combine(n, m) returns m after deleting the shape at m, n+1 after
\* deleting the shape at n or after a merge, and m+1 with the shapes as they
\* were; it deletes the shape at m when that shape is contained in the
\* outline at n, deletes the outline at n when it is contained in the shape
\* at m, and leaves the shapes as they were when their boxes do not overlap.
C19_CombineReturns ==
    CombineDone =>
        LET n == out.i
            m == op.idx
            P == op.before.P
            Q == out.p.P
        IN  /\ \/ out.j = m /\ Deleted(P, Q, m)
               \/ out.j = n + 1 /\ Deleted(P, Q, n)
               \/ out.j = n + 1 /\ Len(Q) >= Len(P) - 1
                                /\ SubSeq(Regions(Q), 1, n) = SubSeq(Regions(P), 1, n)
               \/ out.j = m + 1 /\ Regions(Q) = Regions(P)
            /\ (~P[n + 1].Hole /\ Within(P[m + 1].PS, P[n + 1].PS)) =>
                   out.j = m /\ Deleted(P, Q, m)
            /\ (~P[n + 1].Hole /\ Within(P[n + 1].PS, P[m + 1].PS)) =>
                   out.j = n + 1 /\ Deleted(P, Q, n)
            /\ Apart(P[n + 1], P[m + 1]) => out.j = m + 1 /\ Regions(Q) = Regions(P)

\* the Index combine gives the k-th shape of a merge of the shapes a and b
MergeIndex(a, b, k) == a.Index \o <<"^">> \o b.Index \o <<".", ToString(k)>>

\* the number of shapes that the merge of the pass has put into the list
Merges ==
    Cardinality({k \in 1..Len(out.p.P) :
        \E x \in 0..Len(out.p.P) :
            out.p.P[k].Index =
                MergeIndex(op.before.P[out.i + 1], op.before.P[op.idx + 1], x)})

\* the pass was a call combine(out.i, op.idx) that merged the two shapes
Merged ==
    /\ CombineDone
    /\ Merges > 0

\* C20: after a merge by combine(n, m) the list holds the shapes formerly
\* before n as they were, the first shape of the merge, its outline, at n,
\* then the holes of the merge, the shapes formerly between n and m and the
\* shapes formerly after m, both as they were and in their order; no other
\* shape is dropped or added, and combine has returned n+1.
C20_MergeLayout ==
    Merged =>
        LET n == out.i
            m == op.idx
            P == op.before.P
            Q == out.p.P
            K == Merges
        IN  /\ out.j = n + 1
            /\ Len(Q) = Len(P) - 2 + K
            /\ SubSeq(Q, 1, n) = SubSeq(P, 1, n)
            /\ \A k \in 1..K : Q[n + k].Index = MergeIndex(P[n + 1], P[m + 1], k - 1)
            /\ \A k \in 2..K : Q[n + k].Hole
            /\ SubSeq(Q, n + K + 1, m + K - 1) = SubSeq(P, n + 2, m)
            /\ SubSeq(Q, m + K, Len(Q)) = SubSeq(P, m + 2, Len(P))

\* a merge of the first and the last of three shapes
C20_Witness ==
    /\ Merged
    /\ Len(op.before.P) = 3
    /\ out.i = 0
    /\ op.idx = 2
    /\ out.p.P[2] = op.before.P[2]

(***************************************************************************)
(* intersect.                                                              *)
(***************************************************************************)
\* intersect(a, b, c, d) has returned
IntersectDone ==
    /\ pc = "returned"
    /\ op.name = "intersect"

\* C24: in intersect(a, b, c, d), if a matches c there is no hit; otherwise,
\* if b matches d or c, it is a hit at b; otherwise, if a matches d, it is a
\* hit at a.
C24_EndpointCases ==
    IntersectDone =>
        LET a == op.pts[1]
            b == op.pts[2]
            c == op.pts[3]
            e == op.pts[4]
        IN  /\ a = c => ~out.hit
            /\ (a # c /\ (b = e \/ b = c)) => out.hit /\ out.at = b
            /\ (a # c /\ b # e /\ b # c /\ a = e) => out.hit /\ out.at = a

\* the segments (1,0)->(3,2) and (2,3)->(1,0), which ends where the first
\* starts
C24_Witness ==
    /\ IntersectDone
    /\ op.pts = <<Pt(1, 0), Pt(3, 2), Pt(2, 3), Pt(1, 0)>>
    /\ out.hit
    /\ out.at = Pt(1, 0)

\* twice the signed area of the triangle a, b, c
Cross(a, b, c) == (b.X - a.X) * (c.Y - a.Y) - (b.Y - a.Y) * (c.X - a.X)

\* the point q lies on the closed segment from a to b
OnSegment(q, a, b) == OnEdge(Pt(4 * q.X, 4 * q.Y), a, b)

\* the closed segments a->b and c->e share a point
Share(a, b, c, e) ==
    \/ /\ Cross(c, e, a) * Cross(c, e, b) < 0
       /\ Cross(a, b, c) * Cross(a, b, e) < 0
    \/ OnSegment(a, c, e)
    \/ OnSegment(b, c, e)
    \/ OnSegment(c, a, b)
    \/ OnSegment(e, a, b)

\* intersect has returned for two segments that are no points and do not
\* start in the same place
ProperSegments ==
    /\ IntersectDone
    /\ op.pts[1] # op.pts[2]
    /\ op.pts[3] # op.pts[4]
    /\ op.pts[1] # op.pts[3]

\* C25: for segments of non-zero length that start in different places,
\* intersect reports a hit exactly when the closed segments share a point,
\* and the point it returns with a hit lies on both segments.
C25_HitIffShare ==
    ProperSegments =>
        /\ out.hit <=> Share(op.pts[1], op.pts[2], op.pts[3], op.pts[4])
        /\ (out.hit /\ out.grid) =>
               /\ OnSegment(out.at, op.pts[1], op.pts[2])
               /\ OnSegment(out.at, op.pts[3], op.pts[4])

\* the diagonals of the square from (0,0) to (2,2) cross in (1,1)
C25_Witness ==
    /\ ProperSegments
    /\ op.pts = <<Pt(0, 0), Pt(2, 2), Pt(0, 2), Pt(2, 0)>>
    /\ out.hit
    /\ out.at = Pt(1, 1)

\* a pass of Union's inner loop that called combine
CombineCalled ==
    /\ op.name = "UnionStep"
    /\ ~op.before.P[op.idx + 1].Hole

\* C30: in every call combine(n, m) that Union makes, the shape at n is no
\* hole.
C30_BaseIsNoHole == CombineCalled => ~op.before.P[out.i + 1].Hole

\* C28: every call combine(i, j) and trimHole(j, ...) of Union is made with
\* 0 <= i < j < len(p.P) for the list as it is then, and no index used inside
\* them is out of range.
C28_IndicesInRange ==
    /\ pc = "union" => 0 <= i /\ i < j /\ j < Len(p.P)
    /\ op.name = "UnionStep" =>
           /\ 0 <= out.i
           /\ out.i < op.idx
           /\ op.idx < Len(op.before.P)
           /\ out.st # "panic"
           /\ pc # "panic"

\* a merge or a deletion has made the list shorter, and the next pass is
\* about to be made at the index the last one returned
C28_Witness ==
    /\ pc = "union"
    /\ op.name = "UnionStep"
    /\ Len(in0.P) = 3
    /\ Len(p.P) = 2
    /\ out.j = 1
    /\ j = 1

(***************************************************************************)
(* crossings and outlines.                                                 *)
(***************************************************************************)
\* crossings has returned
CrossingsDone ==
    /\ pc = "returned"
    /\ op.name = "crossings"
    /\ out.st = "ok"

\* outlines has returned for what crossings found, two hits or more
OutlinesDone ==
    /\ CrossingsDone
    /\ Cardinality(out.hits) >= 2

\* C26: for two rings with two crossing points or more, outlines returns a
\* list that is not empty, whose first shape has the Hole flag of p1 and
\* whose further shapes are holes.
C26_OutlinesFlags ==
    OutlinesDone =>
        /\ Len(out.polys) >= 1
        /\ out.polys[1].Hole = out.n1.Hole
        /\ \A k \in 2..Len(out.polys) : out.polys[k].Hole

\* The pass Union is about to make is a call of trimHole on a hole that came
\* with the input, or on what earlier calls of trimHole left of one: the name
\* of such a hole begins with the name of the input shape.
TrimsInputHole ==
    /\ pc = "union"
    /\ steps < MaxSteps
    /\ At(p.P, j).Hole
    /\ \E k \in 0..(Len(ref.P) - 1) : At(ref.P, k).Index = <<Head(At(p.P, j).Index)>>

\* the place of the hole h in the sorted input R
PlaceOf(h, R) == CHOOSE k \in 0..(Len(R) - 1) : At(R, k).Index = <<Head(h.Index)>>

\* The sorted input R in which only the shapes the hole h may be trimmed
\* against are left where they are, the non-holes that follow h; every other
\* shape has its box moved off the grid, where the box test of trimHole
\* passes it over.
OnlyLaterNonHoles(h, R) ==
    [k \in 1..Len(R) |->
        IF ~R[k].Hole /\ k - 1 > PlaceOf(h, R) THEN R[k]
        ELSE [R[k] EXCEPT !.MinX = 4 * GridMax, !.MaxX = 4 * GridMax,
                          !.MinY = 4 * GridMax, !.MaxY = 4 * GridMax]]

\* two results of trimHole agree in what they leave of p and of holed, in
\* the index returned and in how the call ended
SameTrim(t, m) ==
    /\ Geo(t.p.P) = Geo(m.p.P)
    /\ t.holed.nil = m.holed.nil
    /\ Geo(t.holed.P) = Geo(m.holed.P)
    /\ t.j = m.j
    /\ t.st = m.st

\* C21: a call of trimHole that Union makes on an input hole leaves what it
\* would leave if the reference copy held, besides the non-hole shapes that
\* follow the hole in the sorted input, nothing the hole can touch: no hole
\* of the reference copy, and no shape that precedes the hole, clips or
\* eliminates it.
C21_TrimsAgainstLaterNonHoles ==
    [][TrimsInputHole =>
          SameTrim(trimHole(p, j, ref, holed, MaxFuel),
                   trimHole(p, j, [ref EXCEPT !.P = OnlyLaterNonHoles(At(p.P, j), ref.P)],
                            holed, MaxFuel))]_vars

\* The rings A and B keep clear of each other: no point lies within both and
\* they share no stretch of boundary.  Neither contains or crosses the other.
KeepClear(A, B) ==
    /\ \A q \in Samples : ~(InRing(q, A) /\ InRing(q, B))
    /\ ~SharesStretch(A, B)

\* the shape at place k of the input P is a hole that keeps clear of every
\* other shape of the input
LoneHole(P, k) ==
    /\ P[k].Hole
    /\ \A l \in 1..Len(P) : l # k => KeepClear(P[k].PS, P[l].PS)

\* Union has returned
UnionDone == pc = "done" /\ ~in0.nil /\ Len(in0.P) >= 2

\* C22: when Union returns, every input hole that keeps clear of all other
\* input shapes is in the collection: a shape with Hole = true and the ring
\* of that hole.
C22_LoneHoleKept ==
    UnionDone =>
        \A k \in 1..Len(in0.P) :
            LoneHole(in0.P, k) =>
                \E l \in 1..Len(p.P) :
                    p.P[l].Hole /\ IsRotation(p.P[l].PS, in0.P[k].PS)

\* C27: when Union returns, every shape of the collection that still has the
\* name of an input shape, the shapes Union neither merged nor deleted nor
\* added anew, has the points of that input shape: the same number of
\* points, in the same order.
C27_OthersUntouched ==
    UnionDone =>
        \A l \in 1..Len(p.P) : \A k \in 1..Len(in0.P) :
            p.P[l].Index = in0.P[k].Index => p.P[l].PS = in0.P[k].PS

\* the rings of the shapes P
RingsOf(P) == {P[k].PS : k \in 1..Len(P)}

\* Union has returned a collection without holes
UnionHoleFree ==
    /\ UnionDone
    /\ \A k \in 1..Len(p.P) : ~p.P[k].Hole

=============================================================================
